---------------------------- MODULE Spec2Model ----------------------------
(***************************************************************************)
(* A model of the image-crawl Lambda (tonihopponen/saas-page-image-crawl): *)
(* the request handler with its webhook notifier, cache gate and merge     *)
(* step, the harvester, and the similarity deduplicator.                   *)
(*                                                                         *)
(* Strings the code takes apart (URLs) are sequences of tokens, so that    *)
(* split('?')[0], new URL(..).protocol and the extension tests are         *)
(* computed from the value.  The empty sequence is the empty or missing    *)
(* string, which JavaScript treats alike in `!url` and `if (webhookUrl)`.  *)
(***************************************************************************)
EXTENDS Integers, Sequences, FiniteSets, TLC

VARIABLES
    job,        \* job[j]: the locals of handler invocation j and its outcome
    cache,      \* cache[k]: the S3 object stored under key k
    scrapeLog,  \* every firecrawlScrape invocation so far, in order
    env,        \* what callers and collaborators may do in this behaviour
    wk,         \* one sendWebhook call on its own (specification SpecWebhook)
    dd,         \* one dedupeImages call on its own (specification SpecDedupe)
    hv,         \* one parseImages call on its own (specification SpecHarvest)
    cn,         \* canon applied once and again (specification SpecCanon)
    tl,         \* STEP 4d to the merge on their own (specification SpecTail)
    an          \* one analyseImages call on its own (specification SpecAnalyse)

vars == <<job, cache, scrapeLog, env, wk, dd, hv, cn, tl, an>>

----------------------------------------------------------------------------
(* Bounds of the model. *)

\* handler invocations of one behaviour
NJobs == 2
\* the largest retry budget handed to a stand-alone sendWebhook call
MaxRetries == 5
\* the longest candidate sequence handed to a stand-alone dedupeImages call,
\* and the most elements of a document handed to a stand-alone parseImages call
MaxLen == 3
\* the largest limit handed to a stand-alone dedupeImages call
MaxLimit == 3
\* the longest list of deduplicated images handed to the stand-alone tail
MaxTail == 7
\* the most items handed to a stand-alone analyseImages call
MaxItems == 7

Jobs == 1..NJobs

----------------------------------------------------------------------------
(* Values. *)

NoUrl == <<>>
Undefined == "<undefined>"

UrlA == <<"https:", "//a.example">>
UrlB == <<"http:", "//b.example">>
FtpUrl == <<"ftp:", "//a.example">>
Garbage == <<"not a url">>
HookUrl == <<"https:", "//hook.example">>

SubA == <<"https:", "//a.example", "/features">>

\* an image URL: scheme, host and directory, base name, extension, and
\* after "?" the query
ImgA == <<"https:", "//cdn.example/", "a", ".jpg">>
ImgAq == <<"https:", "//cdn.example/", "a", ".jpg", "?", "w=1440">>
ImgAq2 == <<"https:", "//cdn.example/", "a", ".jpg", "?", "w=800">>
ImgB == <<"https:", "//cdn.example/", "b", ".png">>
ImgC == <<"https:", "//cdn.example/", "c", ".webp">>
ImgD == <<"https:", "//cdn.example/", "d", ".jpeg">>
ImgTiny == <<"https:", "//cdn.example/", "tiny", ".png">>
ImgGone == <<"https:", "//cdn.example/", "gone", ".jpg">>
ImgAvif == <<"https:", "//cdn.example/", "hero", ".avif">>
ImgLogo == <<"https:", "//cdn.example/", "logo", ".png">>
ImgUnknown == <<"https:", "//other.example/", "x", ".png">>
ImgFavicon == <<"https:", "//cdn.example/", "Favicon", ".png">>
\* served without a content-length, and no picture probe can read
ImgRaw == <<"https:", "//cdn.example/", "raw", ".png">>
\* a reference relative to its page, and one that no base makes a URL
ImgRel == <<"/assets/", "hero", ".png">>
ImgBad == <<"ht!tp:", "//[cdn", "x", ".png">>

RECURSIVE IndexOf(_, _, _)
\* the first position >= i of token t in s, or 0
IndexOf(s, t, i) ==
    IF i > Len(s) THEN 0
    ELSE IF s[i] = t THEN i
    ELSE IndexOf(s, t, i + 1)

\* u.split('?')[0]
SplitQuery(u) ==
    LET q == IndexOf(u, "?", 1)
    IN  IF q = 0 THEN u ELSE SubSeq(u, 1, q - 1)

\* new URL(url): throws unless the string starts with a scheme
UrlParses(u) == Len(u) >= 2 /\ u[1] \in {"http:", "https:", "ftp:"}
UrlProtocol(u) == u[1]

----------------------------------------------------------------------------
(* sendWebhook(webhookUrl, data, retries = 3).  A frame is one call: i is  *)
(* the loop index, posts the outcome of every axios.post made so far.      *)

WebhookDefaultRetries == 3

IdleFrame == [st |-> "idle", data |-> "none", retries |-> 0, i |-> 0, posts |-> <<>>]

\* entering the function: for (let i = 0; i < retries; i++)
SendWebhookCall(data, retries) ==
    [st |-> IF 0 < retries THEN "running" ELSE "returned",
     data |-> data, retries |-> retries, i |-> 0, posts |-> <<>>]

\* mutant: a successful post does not return, the loop goes on
SendWebhookAttemptNoReturn(f, ok) ==
    LET g == [f EXCEPT !.posts = Append(@, ok)]
    IN  IF ~ok /\ f.i = f.retries - 1 THEN [g EXCEPT !.st = "threw"]
        ELSE IF f.i + 1 < f.retries THEN [g EXCEPT !.i = f.i + 1]
        ELSE [g EXCEPT !.i = f.i + 1, !.st = "returned"]

\* mutant: a failed post is tried again without end, the counter wrapping
SendWebhookAttemptUnbounded(f, ok) ==
    IF ok \/ f.retries = 0 THEN [f EXCEPT !.posts = Append(@, ok), !.st = "returned"]
    ELSE [f EXCEPT !.i = (f.i + 1) % f.retries]

\* one iteration of the loop: the post, and what follows its outcome
SendWebhookAttempt(f, ok) ==
    LET g == [f EXCEPT !.posts = Append(@, ok)]
    IN  IF ok THEN [g EXCEPT !.st = "returned"]
        ELSE IF f.i = f.retries - 1 THEN [g EXCEPT !.st = "threw"]
        ELSE IF f.i + 1 < f.retries THEN [g EXCEPT !.i = f.i + 1]
        ELSE [g EXCEPT !.i = f.i + 1, !.st = "returned"]

WebhookEvents == {"started", "completed", "failed"}

WkCall ==
    /\ wk.st = "idle"
    /\ \E data \in WebhookEvents, retries \in 0..MaxRetries :
          wk' = SendWebhookCall(data, retries)
    /\ UNCHANGED <<job, cache, scrapeLog, env, dd, hv, cn, tl, an>>

WkAttempt ==
    /\ wk.st = "running"
    /\ \E ok \in BOOLEAN : wk' = SendWebhookAttempt(wk, ok)
    /\ UNCHANGED <<job, cache, scrapeLog, env, dd, hv, cn, tl, an>>

----------------------------------------------------------------------------
(* The similarity deduplicator, lib/image-hash.ts.  A fingerprint is the   *)
(* number BigInt('0x' + hash) that ham compares.                           *)

RECURSIVE BitXor(_, _)
\* a ^ b on non-negative integers
BitXor(a, b) ==
    IF a = 0 /\ b = 0 THEN 0
    ELSE (((a % 2) + (b % 2)) % 2) + 2 * BitXor(a \div 2, b \div 2)

RECURSIVE OneBits(_)
\* n.toString(2).replace(/0/g, '').length
OneBits(n) == IF n = 0 THEN 0 ELSE (n % 2) + OneBits(n \div 2)

ham(a, b) == OneBits(BitXor(a, b))

HamThreshold == 8
MinBytes == 20 * 1024
DedupeDefaultLimit == 50

\* the transport's answer to axios.get(url): whether it resolves, and the
\* content-length header when the response carries one
ImageGet(url) ==
    CASE url = ImgA    -> [ok |-> TRUE,  hasLength |-> TRUE,  bytes |-> 51200]
      [] url = ImgAq   -> [ok |-> TRUE,  hasLength |-> FALSE, bytes |-> 0]
      [] url = ImgAq2  -> [ok |-> TRUE,  hasLength |-> TRUE,  bytes |-> 51200]
      [] url = ImgB    -> [ok |-> TRUE,  hasLength |-> FALSE, bytes |-> 0]
      [] url = ImgC    -> [ok |-> TRUE,  hasLength |-> TRUE,  bytes |-> 20480]
      [] url = ImgD    -> [ok |-> TRUE,  hasLength |-> TRUE,  bytes |-> 90000]
      [] url = ImgTiny -> [ok |-> TRUE,  hasLength |-> TRUE,  bytes |-> 20479]
      [] url = ImgAvif -> [ok |-> TRUE,  hasLength |-> TRUE,  bytes |-> 40000]
      [] url = ImgRaw  -> [ok |-> TRUE,  hasLength |-> FALSE, bytes |-> 0]
      [] OTHER         -> [ok |-> FALSE, hasLength |-> FALSE, bytes |-> 0]

\* getHash(canonical): the pHash of the picture behind the URL, or the
\* SHA-256 of the URL when the library fails; either is one value per URL
getHash(canonical) ==
    CASE canonical = ImgA    -> 0
      [] canonical = ImgC    -> 63
      [] canonical = ImgB    -> 4095
      [] canonical = ImgD    -> 1048575
      [] canonical = ImgTiny -> 3
      [] canonical = ImgAvif -> 1073741823
      [] OTHER               -> 16777215

RawImage(url, landingPage, alt) ==
    [url |-> url, landingPage |-> landingPage, alt |-> alt, context |-> Undefined]

\* mutant: the fingerprint is compared with the last kept one only
DedupeVerdictLastOnly(uniques, img) ==
    LET res == ImageGet(img.url)
        hash == getHash(SplitQuery(img.url))
    IN  IF ~res.ok THEN "failed"
        ELSE IF res.hasLength /\ res.bytes < MinBytes THEN "small"
        ELSE IF Len(uniques) > 0
                /\ ham(uniques[Len(uniques)].hash, hash) <= HamThreshold
             THEN "dup"
        ELSE "kept"

\* mutant: a candidate whose retrieval failed is kept
DedupeVerdictKeepsFailed(uniques, img) ==
    LET res == ImageGet(img.url)
        hash == getHash(SplitQuery(img.url))
    IN  IF res.ok /\ res.hasLength /\ res.bytes < MinBytes THEN "small"
        ELSE IF \E k \in 1..Len(uniques) : ham(uniques[k].hash, hash) <= HamThreshold
             THEN "dup"
        ELSE "kept"

\* mutant: a reply without Content-Length counts as a reply of size 0
DedupeVerdictSizeAssumed(uniques, img) ==
    LET res == ImageGet(img.url)
        hash == getHash(SplitQuery(img.url))
    IN  IF ~res.ok THEN "failed"
        ELSE IF ~res.hasLength \/ res.bytes < MinBytes THEN "small"
        ELSE IF \E k \in 1..Len(uniques) : ham(uniques[k].hash, hash) <= HamThreshold
             THEN "dup"
        ELSE "kept"

\* mutant: near-duplicates are clustered: a candidate is also dropped when a
\* picture within 8 of it is within 8 of a kept one
DedupeVerdictClustered(uniques, img) ==
    LET res == ImageGet(img.url)
        hash == getHash(SplitQuery(img.url))
    IN  IF ~res.ok THEN "failed"
        ELSE IF res.hasLength /\ res.bytes < MinBytes THEN "small"
        ELSE IF \E k \in 1..Len(uniques) :
                   \/ ham(uniques[k].hash, hash) <= HamThreshold
                   \/ \E u \in {ImgA, ImgB, ImgC, ImgD} :
                         /\ ham(uniques[k].hash, getHash(u)) <= HamThreshold
                         /\ ham(getHash(u), hash) <= HamThreshold
             THEN "dup"
        ELSE "kept"

\* mutant: the comparison ham(u.hash, hash) < 8
DedupeVerdictBelow(uniques, img) ==
    LET res == ImageGet(img.url)
        hash == getHash(SplitQuery(img.url))
    IN  IF ~res.ok THEN "failed"
        ELSE IF res.hasLength /\ res.bytes < MinBytes THEN "small"
        ELSE IF \E k \in 1..Len(uniques) : ham(uniques[k].hash, hash) < HamThreshold
             THEN "dup"
        ELSE "kept"

\* what one pass of the loop body does with a candidate, before any push
DedupeVerdict(uniques, img) ==
    LET res == ImageGet(img.url)
        hash == getHash(SplitQuery(img.url))
    IN  IF ~res.ok THEN "failed"
        ELSE IF res.hasLength /\ res.bytes < MinBytes THEN "small"
        ELSE IF \E k \in 1..Len(uniques) : ham(uniques[k].hash, hash) <= HamThreshold
             THEN "dup"
        ELSE "kept"

\* uniques.push({ img, hash, hasContentLength: !!contentLength })
DedupePush(uniques, img) ==
    Append(uniques, [img |-> img,
                     hash |-> getHash(SplitQuery(img.url)),
                     hasContentLength |-> ImageGet(img.url).hasLength])

\* if (uniques.length >= limit) break;   -- tested after a push only
DedupeBreaks(uniques, limit) == Len(uniques) >= limit

\* mutant: the images are returned under their canonical URLs
DedupeResultCanonical(uniques) ==
    [k \in 1..Len(uniques) |->
        [url |-> SplitQuery(uniques[k].img.url),
         landingPage |-> uniques[k].img.landingPage,
         alt |-> uniques[k].img.alt,
         context |-> uniques[k].img.context,
         hash |-> uniques[k].hash,
         hasContentLength |-> uniques[k].hasContentLength]]

\* return uniques.map((u) => ({ ...u.img, hash, hasContentLength }))
DedupeResult(uniques) ==
    [k \in 1..Len(uniques) |->
        [url |-> uniques[k].img.url,
         landingPage |-> uniques[k].img.landingPage,
         alt |-> uniques[k].img.alt,
         context |-> uniques[k].img.context,
         hash |-> uniques[k].hash,
         hasContentLength |-> uniques[k].hasContentLength]]

RECURSIVE DedupeLoop(_, _, _, _)
\* the for-loop from candidate idx on
DedupeLoop(imgs, limit, idx, uniques) ==
    IF idx > Len(imgs) THEN uniques
    ELSE IF DedupeVerdict(uniques, imgs[idx]) = "kept"
         THEN LET pushed == DedupePush(uniques, imgs[idx])
              IN  IF DedupeBreaks(pushed, limit) THEN pushed
                  ELSE DedupeLoop(imgs, limit, idx + 1, pushed)
         ELSE DedupeLoop(imgs, limit, idx + 1, uniques)

dedupeImages(imgs, limit) == DedupeResult(DedupeLoop(imgs, limit, 1, <<>>))

(* One dedupeImages call, pass by pass. *)

DedupePalette == {ImgA, ImgAq, ImgB, ImgC, ImgD, ImgTiny, ImgGone}

IdleDedupe ==
    [st |-> "idle", imgs |-> <<>>, limit |-> 0, idx |-> 1, uniques |-> <<>>,
     verdicts |-> <<>>, out |-> <<>>]

CandidateSeqs ==
    UNION {[1..n -> {RawImage(u, UrlA, Undefined) : u \in DedupePalette}] : n \in 0..MaxLen}

DdCall ==
    /\ dd.st = "idle"
    /\ \E imgs \in CandidateSeqs, limit \in 0..MaxLimit :
          dd' = [IdleDedupe EXCEPT !.st = "loop", !.imgs = imgs, !.limit = limit]
    /\ UNCHANGED <<job, cache, scrapeLog, env, wk, hv, cn, tl, an>>

DdPass ==
    /\ dd.st = "loop"
    /\ dd.idx <= Len(dd.imgs)
    /\ LET img == dd.imgs[dd.idx]
           v == DedupeVerdict(dd.uniques, img)
           pushed == IF v = "kept" THEN DedupePush(dd.uniques, img) ELSE dd.uniques
       IN  dd' = [dd EXCEPT !.uniques = pushed,
                            !.verdicts = Append(@, v),
                            !.idx = IF v = "kept" /\ DedupeBreaks(pushed, dd.limit)
                                    THEN Len(dd.imgs) + 1 ELSE dd.idx + 1]
    /\ UNCHANGED <<job, cache, scrapeLog, env, wk, hv, cn, tl, an>>

DdReturn ==
    /\ dd.st = "loop"
    /\ dd.idx > Len(dd.imgs)
    /\ dd' = [dd EXCEPT !.st = "returned", !.out = DedupeResult(dd.uniques)]
    /\ UNCHANGED <<job, cache, scrapeLog, env, wk, hv, cn, tl, an>>

----------------------------------------------------------------------------
(* The harvester, lib/html-images.ts.  A document is the sequence of its   *)
(* image-bearing elements; the empty sequence is the empty string.         *)

ImgTag(src, alt) == [tag |-> "img", ref |-> src, alt |-> alt]
SourceTag(first) == [tag |-> "source", ref |-> first, alt |-> Undefined]
BgStyle(ref) == [tag |-> "style", ref |-> ref, alt |-> Undefined]

\* the i flag of the two regular expressions: a token in lower case
LowerCase(t) ==
    CASE t = "Favicon" -> "favicon"
      [] t = "LOGO" -> "logo"
      [] t = ".PNG" -> ".png"
      [] OTHER -> t

\* /\.jpe?g$|\.png$|\.webp$/i.test(url)
EndsWithAllowedFormat(url) ==
    Len(url) > 0 /\ LowerCase(url[Len(url)]) \in {".jpg", ".jpeg", ".png", ".webp"}

\* /(sprite|icon|logo|favicon|avatar|testimonial)/i.test(url)
HasNonProductToken(url) ==
    \E k \in 1..Len(url) :
        LowerCase(url[k]) \in {"sprite", "icon", "logo", "favicon", "avatar", "testimonial"}

\* mutant: pushUnique without its test of the file-name keywords
PushedAnyName(url) == url # NoUrl /\ EndsWithAllowedFormat(url)

\* pushUnique: whether the reference is pushed
Pushed(url) ==
    /\ url # NoUrl
    /\ EndsWithAllowedFormat(url)
    /\ ~HasNonProductToken(url)

RECURSIVE ParseTag(_, _, _, _)
\* one querySelectorAll(tag).forEach pass, from element k on
ParseTag(html, landingPage, tag, k) ==
    IF k > Len(html) THEN <<>>
    ELSE (IF html[k].tag = tag /\ Pushed(html[k].ref)
          THEN <<RawImage(html[k].ref, landingPage, html[k].alt)>>
          ELSE <<>>) \o ParseTag(html, landingPage, tag, k + 1)

parseImages(html, landingPage) ==
    IF html = <<>> THEN <<>>
    ELSE ParseTag(html, landingPage, "img", 1)
         \o ParseTag(html, landingPage, "source", 1)
         \o ParseTag(html, landingPage, "style", 1)

HtmlHome == <<ImgTag(ImgA, "Dashboard"), ImgTag(ImgLogo, "Logo"), ImgTag(ImgB, Undefined)>>
HtmlBare == <<ImgTag(ImgAq, "Hero"), BgStyle(ImgAvif)>>
HtmlSub == <<SourceTag(ImgC), ImgTag(ImgA, Undefined)>>
\* three <img>: one JPEG under two query strings, and a PNG
HtmlTwins == <<ImgTag(ImgAq, Undefined), ImgTag(ImgAq2, Undefined), ImgTag(ImgB, Undefined)>>

(* One parseImages call on its own. *)

\* the elements of the documents; their references are plain,
\* keyword-bearing, relative, malformed and empty
HarvestElements ==
    LET refs == {ImgA, ImgLogo, ImgFavicon, ImgRel, ImgBad, NoUrl}
    IN  {ImgTag(u, Undefined) : u \in refs}
        \cup {SourceTag(u) : u \in refs}
        \cup {BgStyle(u) : u \in refs}

HtmlDocs == UNION {[1..n -> HarvestElements] : n \in 0..MaxLen}

IdleHarvest == [st |-> "idle", html |-> <<>>, landingPage |-> NoUrl, out |-> <<>>]

HvCall ==
    /\ hv.st = "idle"
    /\ \E html \in HtmlDocs :
          hv' = [IdleHarvest EXCEPT !.st = "called", !.html = html, !.landingPage = UrlA]
    /\ UNCHANGED <<job, cache, scrapeLog, env, wk, dd, cn, tl, an>>

HvReturn ==
    /\ hv.st = "called"
    /\ hv' = [hv EXCEPT !.st = "returned", !.out = parseImages(hv.html, hv.landingPage)]
    /\ UNCHANGED <<job, cache, scrapeLog, env, wk, dd, cn, tl, an>>

----------------------------------------------------------------------------
(* The collaborators' replies. *)

\* a FirecrawlResponse; a field the reply lacks is empty
Payload(links, rawHtml, rawHTML) ==
    [links |-> links, rawHtml |-> rawHtml, rawHTML |-> rawHTML]

NoPayload == Payload(<<>>, <<>>, <<>>)

HomeFull == Payload(<<SubA, UrlA>>, HtmlHome, <<>>)
HomeBare == Payload(<<>>, HtmlBare, <<>>)
HomeTwins == Payload(<<>>, HtmlTwins, <<>>)
HomeReplies == {HomeFull, HomeBare, HomeTwins}
SubReplies == {Payload(<<>>, <<>>, HtmlSub), Payload(<<>>, HtmlSub, <<>>)}

\* choices[0].message.content of a model: text that is not JSON ("text"),
\* or JSON ("json") that is an array of the items or some other value
ModelReply(kind, isArray, items) == [kind |-> kind, isArray |-> isArray, items |-> items]

\* no reply received
NoReply == ModelReply("none", FALSE, <<>>)

\* try { return JSON.parse(content ?? '[]') } catch { return [] }
ParsedOrEmpty(reply) ==
    IF reply.kind = "json" THEN [isArray |-> reply.isArray, items |-> reply.items]
    ELSE [isArray |-> TRUE, items |-> <<>>]

filterHomepageLinks(reply) == ParsedOrEmpty(reply)

gptExtractImages(reply) == ParsedOrEmpty(reply)

LinkReplies ==
    {ModelReply("text", FALSE, <<>>),
     ModelReply("json", FALSE, <<SubA>>),
     ModelReply("json", TRUE, <<>>),
     ModelReply("json", TRUE, <<SubA, UrlA>>),
     ModelReply("json", TRUE, <<UrlA>>)}

FallbackReplies ==
    {ModelReply("text", FALSE, <<>>),
     ModelReply("json", FALSE, <<>>),
     ModelReply("json", TRUE, <<>>),
     ModelReply("json", TRUE, <<ImgB>>),
     ModelReply("json", TRUE, <<ImgD>>),
     ModelReply("json", TRUE, <<ImgAq, ImgB>>)}

\* sha256(text), hex
sha256(text) ==
    CASE text = UrlA -> "2f7c"
      [] text = UrlB -> "91be"
      [] OTHER -> "e3b0"

\* `${sha256(url)}/homepage.json`
CacheKey(url) == <<sha256(url), "/homepage.json">>

CacheKeys == {CacheKey(UrlA), CacheKey(UrlB)}
CacheTtlSeconds == 86400
\* no object under the key; `by` is the job that stored the object (0: none),
\* kept for the properties and read by no action
NoEntry == [present |-> FALSE, payload |-> NoPayload, ttl |-> 0, by |-> 0]

----------------------------------------------------------------------------
(* uploadAllImagesToS3 and filterS3ImagesByDimension, lib/image-hash.ts.   *)

\* the fingerprint as the hex string the S3 key carries
HashHex(h) ==
    CASE h = 0 -> "-0"
      [] h = 3 -> "-3"
      [] h = 63 -> "-3f"
      [] h = 4095 -> "-fff"
      [] h = 1048575 -> "-fffff"
      [] h = 16777215 -> "-ffffff"
      [] OTHER -> "-3fffffff"

\* `https://${bucket}.s3.amazonaws.com/all/${baseName}-${img.hash}.${ext}`
S3Url(img) ==
    LET urlNoQuery == SplitQuery(img.url)
        last == urlNoQuery[Len(urlNoQuery)]
        ext == IF last = ".avif" THEN ".webp" ELSE last
    IN  <<"https:", "//bucket.s3.amazonaws.com/all/", urlNoQuery[3], HashHex(img.hash), ext>>

\* one pass of the upload loop: the download and the put succeed and the
\* URL is rewritten, or the catch keeps the image as it is
UploadOne(img, putOk) ==
    IF Len(SplitQuery(img.url)) >= 4 /\ ImageGet(SplitQuery(img.url)).ok /\ putOk
    THEN [img EXCEPT !.url = S3Url(img)]
    ELSE img

uploadAllImagesToS3(imgs, putOk) ==
    [k \in 1..Len(imgs) |-> UploadOne(imgs[k], putOk[k])]

MinDimension == 300
DimensionCap == 5

\* probe(url): the picture's size, by its base name; ok = FALSE: probe throws
ProbeInfo(url) ==
    LET name == IF Len(url) >= 3 THEN url[3] ELSE "?"
    IN  CASE name = "a" -> [ok |-> TRUE, width |-> 1200, height |-> 800]
          [] name = "b" -> [ok |-> TRUE, width |-> 640, height |-> 200]
          [] name = "c" -> [ok |-> TRUE, width |-> 100, height |-> 300]
          [] name = "d" -> [ok |-> TRUE, width |-> 299, height |-> 120]
          [] OTHER -> [ok |-> FALSE, width |-> 0, height |-> 0]

PassesDimension(img) ==
    LET info == ProbeInfo(img.url)
    IN  info.ok /\ (info.width >= MinDimension \/ info.height >= MinDimension)

RECURSIVE DimensionLoop(_, _, _)
DimensionLoop(imgs, k, filtered) ==
    IF k > Len(imgs) THEN filtered
    ELSE IF PassesDimension(imgs[k])
         THEN IF Len(filtered) + 1 >= DimensionCap THEN Append(filtered, imgs[k])
              ELSE DimensionLoop(imgs, k + 1, Append(filtered, imgs[k]))
         ELSE DimensionLoop(imgs, k + 1, filtered)

filterS3ImagesByDimension(imgs) == DimensionLoop(imgs, 1, <<>>)

\* filterImages, the decision of one pass of its loop: TRUE when the image
\* is pushed.  An image with icon or logo in its URL (in any case, within a
\* longer word as well) is skipped; one with a
\* content-length is kept unprobed; one without is probed, skipped when
\* both sides are under 300, and kept when the download or the probe throws
FilterImagesKeeps(img) ==
    IF \E k \in 1..Len(img.url) : LowerCase(img.url[k]) \in {"icon", "logo", "favicon"}
    THEN FALSE
    ELSE IF img.hasContentLength THEN TRUE
    ELSE LET info == ProbeInfo(img.url)
         IN  IF ~info.ok THEN TRUE
             ELSE ~(info.width < MinDimension /\ info.height < MinDimension)

----------------------------------------------------------------------------
(* STEP 5 and the merge, handlers/index.ts.                                *)

HardCap == 5
SendCap == 5

\* imgs.slice(0, n)
Slice(s, n) == SubSeq(s, 1, IF Len(s) < n THEN Len(s) ELSE n)

RECURSIVE SelectSeqBy(_, _, _)
SelectSeqBy(s, k, keep) ==
    IF k > Len(s) THEN <<>>
    ELSE (IF s[k] \in keep THEN <<s[k]>> ELSE <<>>) \o SelectSeqBy(s, k + 1, keep)

\* /\.(jpe?g|png|webp)(\?|$)/i.test(img.url)
HasEligibleFormat(url) ==
    \E k \in 1..Len(url) :
        /\ url[k] \in {".jpg", ".jpeg", ".png", ".webp"}
        /\ (k = Len(url) \/ url[k + 1] = "?")

Eligible(limitedImgs) ==
    SelectSeqBy(limitedImgs, 1,
                {limitedImgs[k] : k \in {i \in 1..Len(limitedImgs) :
                                            HasEligibleFormat(limitedImgs[i].url)}})

\* mutant: every image of the right size goes on, however many there are
LimitedImgsUncapped(s3Imgs) ==
    SelectSeqBy(s3Imgs, 1, {s3Imgs[k] : k \in {i \in 1..Len(s3Imgs) :
                                                  PassesDimension(s3Imgs[i])}})

\* filterS3ImagesByDimension(s3Imgs), then .slice(0, 5)
LimitedImgs(s3Imgs) == Slice(filterS3ImagesByDimension(s3Imgs), HardCap)

\* one element of the array analyseImages returns
AiResult(url, alt) == [isNull |-> FALSE, url |-> url, alt |-> alt]
AiNull == [isNull |-> TRUE, url |-> NoUrl, alt |-> Undefined]

\* const canon = (u?: string) => (u ? u.split('?')[0] : '')
canon(u) == IF u = NoUrl THEN NoUrl ELSE SplitQuery(u)

(* canon on its own: applied to two URLs, and again to its own result.     *)
(* A URL is held by its parts, up to the query, the query, the fragment;   *)
(* the string the code sees is their concatenation.                        *)

CanonUrls ==
    [base : {ImgA, ImgB, SubA},
     query : {<<>>, <<"?", "w=1440">>, <<"?", "w=800">>, <<"?", "a=1", "?", "b=2">>},
     fragment : {<<>>, <<"#", "top">>}]

UrlString(parts) == parts.base \o parts.query \o parts.fragment

IdleCanon ==
    LET none == [base |-> NoUrl, query |-> <<>>, fragment |-> <<>>]
    IN  [st |-> "idle", u |-> none, v |-> none, cu |-> NoUrl, cv |-> NoUrl,
         ccu |-> NoUrl, ccv |-> NoUrl]

CnCall ==
    /\ cn.st = "idle"
    /\ \E u \in CanonUrls, v \in CanonUrls :
          cn' = [IdleCanon EXCEPT !.st = "called", !.u = u, !.v = v]
    /\ UNCHANGED <<job, cache, scrapeLog, env, wk, dd, hv, tl, an>>

CnCanon ==
    /\ cn.st = "called"
    /\ cn' = [cn EXCEPT !.st = "once", !.cu = canon(UrlString(cn.u)),
                        !.cv = canon(UrlString(cn.v))]
    /\ UNCHANGED <<job, cache, scrapeLog, env, wk, dd, hv, tl, an>>

CnAgain ==
    /\ cn.st = "once"
    /\ cn' = [cn EXCEPT !.st = "twice", !.ccu = canon(cn.cu), !.ccv = canon(cn.cv)]
    /\ UNCHANGED <<job, cache, scrapeLog, env, wk, dd, hv, tl, an>>

\* analysed.filter((a) => a.url) reads a property of every element
MergeThrows(analysed) == \E k \in 1..Len(analysed) : analysed[k].isNull

\* mutant: the first result filed under a key stays
AiByUrlGetFirst(analysed, key) ==
    LET ks == {k \in 1..Len(analysed) :
                  analysed[k].url # NoUrl /\ canon(analysed[k].url) = key}
    IN  IF ks = {} THEN AiNull
        ELSE analysed[CHOOSE k \in ks : \A m \in ks : k <= m]

\* aiByUrl.get(key): the last result filed under the key
AiByUrlGet(analysed, key) ==
    LET ks == {k \in 1..Len(analysed) :
                  analysed[k].url # NoUrl /\ canon(analysed[k].url) = key}
    IN  IF ks = {} THEN AiNull
        ELSE analysed[CHOOSE k \in ks : \A m \in ks : m <= k]

\* mutant: the merge returns the join key in place of the image's URL
ImagesFinalCanonUrl(limitedImgs, analysed) ==
    [k \in 1..Len(limitedImgs) |->
        LET raw == limitedImgs[k]
            ai == AiByUrlGet(analysed, canon(raw.url))
        IN  [url |-> canon(raw.url),
             alt |-> IF ~ai.isNull /\ ai.alt # Undefined THEN ai.alt
                     ELSE IF raw.alt # Undefined THEN raw.alt
                     ELSE "",
             landing_page |-> raw.landingPage,
             hash |-> raw.hash]]

\* mutant: alt without its final default, ai?.alt ?? raw.alt
ImagesFinalNoDefault(limitedImgs, analysed) ==
    [k \in 1..Len(limitedImgs) |->
        LET raw == limitedImgs[k]
            ai == AiByUrlGet(analysed, canon(raw.url))
        IN  [url |-> raw.url,
             alt |-> IF ~ai.isNull /\ ai.alt # Undefined THEN ai.alt ELSE raw.alt,
             landing_page |-> raw.landingPage,
             hash |-> raw.hash]]

\* imagesFinal = limitedImgs.map((raw) => ...)
ImagesFinal(limitedImgs, analysed) ==
    [k \in 1..Len(limitedImgs) |->
        LET raw == limitedImgs[k]
            ai == AiByUrlGet(analysed, canon(raw.url))
        IN  [url |-> raw.url,
             alt |-> IF ~ai.isNull /\ ai.alt # Undefined THEN ai.alt
                     ELSE IF raw.alt # Undefined THEN raw.alt
                     ELSE "",
             landing_page |-> raw.landingPage,
             hash |-> raw.hash]]

\* replies of analyseImages to the images sent
Echo(sent) == [k \in 1..Len(sent) |-> AiResult(sent[k].url, "AI alt")]
Reverse(s) == [k \in 1..Len(s) |-> s[Len(s) + 1 - k]]

\* the prompt asks for alt, type and confidence: results without a url
Unkeyed(sent) == [k \in 1..Len(sent) |-> AiResult(NoUrl, "AI alt")]

\* what analyseImages may return for the images sent; among them two
\* results for each image, the second under another query string, and the
\* stand-in results of a batch whose reply did not parse
AnalyseReplies(sent) ==
    LET first == [k \in 1..Len(sent) |-> AiResult(sent[k].url, "AI first")]
        again == [k \in 1..Len(sent) |->
                    AiResult(canon(sent[k].url) \o <<"?", "v=2">>, "AI alt")]
        stubs == [k \in 1..Len(sent) |->
                    AiResult(sent[k].url,
                             IF sent[k].alt = Undefined THEN "" ELSE sent[k].alt)]
    IN  {<<>>,
         Echo(sent),
         Unkeyed(sent),
         Append(Reverse(Echo(sent)), AiResult(ImgUnknown, "AI other")),
         first \o again,
         stubs,
         <<AiNull>>}

\* the collaborators whose call may fail
Collaborators == {"s3get", "s3put", "firecrawl", "openai"}

----------------------------------------------------------------------------
(* The handler, handlers/index.ts.                                         *)

\* event.body: missing, not JSON, the JSON value null, or a JSON object
Body(kind, url, force, hook) ==
    [kind |-> kind, url |-> url, force_refresh |-> force, webhook_url |-> hook]

NoBody == Body("absent", NoUrl, FALSE, NoUrl)

Bodies ==
    {NoBody, Body("badjson", NoUrl, FALSE, NoUrl), Body("null", NoUrl, FALSE, NoUrl)}
    \cup {Body("object", u, f, h) : u \in {NoUrl, UrlA, UrlB, FtpUrl, Garbage},
                                    f \in BOOLEAN, h \in {NoUrl, HookUrl}}

NoResponse ==
    [kind |-> "none", statusCode |-> 0, status |-> "", images |-> <<>>, error |-> "",
     details |-> ""]

Response200(images) ==
    [kind |-> "returned", statusCode |-> 200, status |-> "completed",
     images |-> images, error |-> "", details |-> ""]

\* errorResult: error is err.message, details the first truthy one of
\* err.response?.data, err.stack and 'No additional details'
Response400(error, details) ==
    [kind |-> "returned", statusCode |-> 400, status |-> "failed",
     images |-> <<>>, error |-> error, details |-> details]

\* the promise the handler returned is rejected
Rejected(error) ==
    [kind |-> "threw", statusCode |-> 0, status |-> "", images |-> <<>>, error |-> error,
     details |-> ""]

InitJob ==
    [pc |-> "idle", body |-> NoBody, url |-> NoUrl, force |-> FALSE,
     webhookUrl |-> NoUrl, gated |-> "none", hasHome |-> FALSE, homepage |-> NoPayload,
     linkReply |-> NoReply, keptLinks |-> <<>>, pages |-> <<>>, imgs |-> <<>>,
     fallbacks |-> 0, fallbackReply |-> NoReply,
     uniqueImgs |-> <<>>, s3Imgs |-> <<>>, limitedImgs |-> <<>>,
     merging |-> FALSE, analysed |-> <<>>, err |-> "", frame |-> IdleFrame,
     events |-> <<>>,
     response |-> NoResponse]

\* mutant: the validation block without its test of url
ValidationUrlUnchecked(body) ==
    IF body.kind = "absent" THEN [err |-> "body missing", webhookUrl |-> NoUrl]
    ELSE IF body.kind = "badjson"
         THEN [err |-> "Unexpected token", webhookUrl |-> NoUrl]
    ELSE IF body.kind = "null"
         THEN [err |-> "Cannot destructure", webhookUrl |-> NoUrl]
    ELSE IF ~UrlParses(body.url)
         THEN [err |-> "Invalid URL", webhookUrl |-> body.webhook_url]
    ELSE IF UrlProtocol(body.url) \notin {"http:", "https:"}
         THEN [err |-> "url must start with http/https", webhookUrl |-> body.webhook_url]
    ELSE [err |-> "", webhookUrl |-> body.webhook_url]

\* mutant: the validation block without its test of the protocol
ValidationAnyScheme(body) ==
    IF body.kind = "absent" THEN [err |-> "body missing", webhookUrl |-> NoUrl]
    ELSE IF body.kind = "badjson"
         THEN [err |-> "Unexpected token", webhookUrl |-> NoUrl]
    ELSE IF body.kind = "null"
         THEN [err |-> "Cannot destructure", webhookUrl |-> NoUrl]
    ELSE IF body.url = NoUrl THEN [err |-> "url missing", webhookUrl |-> NoUrl]
    ELSE IF ~UrlParses(body.url)
         THEN [err |-> "Invalid URL", webhookUrl |-> body.webhook_url]
    ELSE [err |-> "", webhookUrl |-> body.webhook_url]

\* the validation block: the error it throws ("" when it passes) and the
\* value webhookUrl holds when it is left
Validation(body) ==
    IF body.kind = "absent" THEN [err |-> "body missing", webhookUrl |-> NoUrl]
    ELSE IF body.kind = "badjson"
         THEN [err |-> "Unexpected token", webhookUrl |-> NoUrl]
    ELSE IF body.kind = "null"
         THEN [err |-> "Cannot destructure", webhookUrl |-> NoUrl]
    ELSE IF body.url = NoUrl THEN [err |-> "url missing", webhookUrl |-> NoUrl]
    ELSE IF ~UrlParses(body.url)
         THEN [err |-> "Invalid URL", webhookUrl |-> body.webhook_url]
    ELSE IF UrlProtocol(body.url) \notin {"http:", "https:"}
         THEN [err |-> "url must start with http/https", webhookUrl |-> body.webhook_url]
    ELSE [err |-> "", webhookUrl |-> body.webhook_url]

\* source_url: event.body ? JSON.parse(event.body).url : 'unknown', in the
\* catch block: the error it throws there, "" when it throws none
CatchBlockError(body) ==
    IF body.kind = "badjson" THEN "Unexpected token"
    ELSE IF body.kind = "null" THEN "Cannot read properties of null"
    ELSE ""

\* mutant: a sendWebhook call outside any try/catch of its own
AfterWebhookUncaught(next, settled) == IF settled = "threw" THEN "failed" ELSE next

\* mutant: the 'completed' sendWebhook call outside a try/catch of its own
AfterWebhookRethrown(next, settled) ==
    IF settled = "threw" /\ next = "return200" THEN "failed" ELSE next

\* where the handler goes on once a sendWebhook call has settled: each call
\* is wrapped in try/catch, so a throw is logged and nothing more
AfterWebhook(next, settled) == next

\* mutant: the cached homepage is never used
MustFetchHomeAlways(hasHome, force) == TRUE

\* if (!homepage || force_refresh)
MustFetchHome(hasHome, force) == ~hasHome \/ force

TopK == 1

\* mutant: gptRaw.slice(0, 1) without the Array.isArray test
KeptLinksUnchecked(gptRaw) == Slice(gptRaw.items, TopK)

\* mutant: every link of the reply is kept
KeptLinksAll(gptRaw) == IF gptRaw.isArray THEN gptRaw.items ELSE <<>>

\* (Array.isArray(gptRaw) ? gptRaw : []).slice(0, 1)
KeptLinks(gptRaw) == Slice(IF gptRaw.isArray THEN gptRaw.items ELSE <<>>, TopK)

RECURSIVE HarvestPages(_, _)
HarvestPages(pages, k) ==
    IF k > Len(pages) THEN <<>>
    ELSE parseImages(pages[k].rawHTML, pages[k].link) \o HarvestPages(pages, k + 1)

\* STEP 4a: homepage first, then the pages in order
Harvested(homepage, url, pages) ==
    parseImages(homepage.rawHtml, url) \o HarvestPages(pages, 1)

Update(j, rec) == job' = [job EXCEPT ![j] = rec]

\* an exception inside the try block: control passes to the catch block
Throw(j, msg) == Update(j, [job[j] EXCEPT !.pc = "failed", !.err = msg])

Invoke(j) ==
    /\ job[j].pc = "idle"
    /\ j <= env.invocations
    /\ env.overlap \/ \A i \in Jobs : i < j => job[i].pc = "done"
    /\ \E body \in env.bodies : Update(j, [job[j] EXCEPT !.pc = "validating", !.body = body])
    /\ UNCHANGED <<cache, scrapeLog, env, wk, dd, hv, cn, tl, an>>

Validate(j) ==
    /\ job[j].pc = "validating"
    /\ LET v == Validation(job[j].body)
           r == [job[j] EXCEPT !.webhookUrl = v.webhookUrl]
       IN  IF v.err # ""
           THEN Update(j, [r EXCEPT !.pc = "failed", !.err = v.err])
           ELSE IF v.webhookUrl # NoUrl
           THEN Update(j, [r EXCEPT !.pc = "notify_started",
                                    !.url = job[j].body.url,
                                    !.force = job[j].body.force_refresh,
                                    !.frame = SendWebhookCall("started", WebhookDefaultRetries)])
           ELSE Update(j, [r EXCEPT !.pc = "cache_get",
                                    !.url = job[j].body.url,
                                    !.force = job[j].body.force_refresh])
    /\ UNCHANGED <<cache, scrapeLog, env, wk, dd, hv, cn, tl, an>>

\* the record of a settled sendWebhook call
Event(f) == [event |-> f.data, delivered |-> f.st = "returned"]

\* one axios.post of the sendWebhook call the handler awaits
Notify(j) ==
    /\ job[j].pc \in {"notify_started", "notify_completed", "notify_failed"}
    /\ job[j].frame.st = "running"
    /\ \E ok \in env.posts :
          LET f == SendWebhookAttempt(job[j].frame, ok)
              r == [job[j] EXCEPT !.frame = f]
              s == [job[j] EXCEPT !.frame = IdleFrame, !.events = Append(@, Event(f))]
          IN  IF f.st = "running" THEN Update(j, r)
              ELSE IF job[j].pc = "notify_started"
              THEN Update(j, [s EXCEPT !.pc = AfterWebhook("cache_get", f.st)])
              ELSE IF job[j].pc = "notify_completed"
              THEN Update(j, [s EXCEPT !.pc = AfterWebhook("return200", f.st)])
              ELSE Update(j, [s EXCEPT !.pc = AfterWebhook("return400", f.st)])
    /\ UNCHANGED <<cache, scrapeLog, env, wk, dd, hv, cn, tl, an>>

\* STEP 1: getObject(key) resolves with the stored payload or, on a 404,
\* with undefined; any other S3 error is rethrown
CacheGet(j) ==
    /\ job[j].pc = "cache_get"
    /\ \/ LET e == cache[CacheKey(job[j].url)]
              r == [job[j] EXCEPT !.hasHome = e.present, !.homepage = e.payload,
                                  !.gated = IF e.present THEN "hit" ELSE "miss"]
          IN  Update(j, [r EXCEPT !.pc = IF MustFetchHome(e.present, job[j].force)
                                         THEN "fetch_home" ELSE "filtering_links"])
       \/ /\ "s3get" \in env.faults
          /\ Throw(j, "S3 error")
    /\ UNCHANGED <<cache, scrapeLog, env, wk, dd, hv, cn, tl, an>>

Scrape(j, url, stage) == [job |-> j, url |-> url, stage |-> stage]

FetchHome(j) ==
    /\ job[j].pc = "fetch_home"
    /\ scrapeLog' = Append(scrapeLog, Scrape(j, job[j].url, "home"))
    /\ \/ \E reply \in HomeReplies :
             Update(j, [job[j] EXCEPT !.pc = "cache_put", !.hasHome = TRUE,
                                      !.homepage = reply])
       \/ /\ "firecrawl" \in env.faults
          /\ Throw(j, "Firecrawl error")
    /\ UNCHANGED <<cache, env, wk, dd, hv, cn, tl, an>>

\* mutant: putObject(key, homepage), the object stored without an expiry
CacheEntryNoExpiry(payload, ttl, by) ==
    [present |-> TRUE, payload |-> payload, ttl |-> 0, by |-> by]

\* mutant: a put that stores an object cut short
CacheEntryTorn(payload, ttl, by) ==
    [present |-> TRUE, payload |-> NoPayload, ttl |-> ttl, by |-> by]

\* what putObject(key, homepage, 86400) stores
CacheEntry(payload, ttl, by) ==
    [present |-> TRUE, payload |-> payload, ttl |-> ttl, by |-> by]

CachePut(j) ==
    /\ job[j].pc = "cache_put"
    /\ \/ /\ cache' = [cache EXCEPT ![CacheKey(job[j].url)] =
                          CacheEntry(job[j].homepage, CacheTtlSeconds, j)]
          /\ Update(j, [job[j] EXCEPT !.pc = "filtering_links"])
       \/ /\ "s3put" \in env.faults
          /\ Throw(j, "S3 error")
          /\ UNCHANGED cache
    /\ UNCHANGED <<scrapeLog, env, wk, dd, hv, cn, tl, an>>

\* the bucket's lifecycle rule (ExpirationInDays: 1) removes an object
CacheExpire(k) ==
    /\ cache[k].present
    /\ \A j \in Jobs : job[j].pc \in {"idle", "done"}
    /\ cache' = [cache EXCEPT ![k] = NoEntry]
    /\ UNCHANGED <<job, scrapeLog, env, wk, dd, hv, cn, tl, an>>

FilterLinks(j) ==
    /\ job[j].pc = "filtering_links"
    /\ \/ \E reply \in env.linkReplies :
             Update(j, [job[j] EXCEPT !.pc = "fetching_subpages",
                                      !.linkReply = reply,
                                      !.keptLinks = KeptLinks(filterHomepageLinks(reply))])
       \/ /\ "openai" \in env.faults
          /\ Throw(j, "OpenAI error")
    /\ UNCHANGED <<cache, scrapeLog, env, wk, dd, hv, cn, tl, an>>

\* STEP 3: the fetch of the next kept link resolves or rejects; Promise.all
\* rejects with the first rejection
FetchSubpage(j) ==
    /\ job[j].pc = "fetching_subpages"
    /\ Len(job[j].pages) < Len(job[j].keptLinks)
    /\ LET link == job[j].keptLinks[Len(job[j].pages) + 1]
       IN  /\ scrapeLog' = Append(scrapeLog, Scrape(j, link, "sub"))
           /\ \/ \E page \in SubReplies :
                    Update(j, [job[j] EXCEPT !.pages =
                        Append(@, [link |-> link, rawHTML |-> page.rawHTML])])
              \/ /\ "firecrawl" \in env.faults
                 /\ Throw(j, "Firecrawl error")
    /\ UNCHANGED <<cache, env, wk, dd, hv, cn, tl, an>>

\* mutant: the fallback is invoked whatever was harvested
HarvestFallbackAlways(j) ==
    /\ job[j].pc = "fetching_subpages"
    /\ Len(job[j].pages) = Len(job[j].keptLinks)
    /\ LET imgs == Harvested(job[j].homepage, job[j].url, job[j].pages)
       IN  Update(j, [job[j] EXCEPT !.imgs = imgs, !.pc = "fallback"])
    /\ UNCHANGED <<cache, scrapeLog, env, wk, dd, hv, cn, tl, an>>

\* mutant: the pages are harvested as soon as the links are known, without
\* awaiting Promise.all
HarvestWithoutJoin(j) ==
    /\ job[j].pc = "fetching_subpages"
    /\ LET imgs == Harvested(job[j].homepage, job[j].url, job[j].pages)
       IN  Update(j, [job[j] EXCEPT !.imgs = imgs,
                                    !.pc = IF Len(imgs) = 0 THEN "fallback"
                                           ELSE "deduplicating"])
    /\ UNCHANGED <<cache, scrapeLog, env, wk, dd, hv, cn, tl, an>>

\* STEP 4a
Harvest(j) ==
    /\ job[j].pc = "fetching_subpages"
    /\ Len(job[j].pages) = Len(job[j].keptLinks)
    /\ LET imgs == Harvested(job[j].homepage, job[j].url, job[j].pages)
       IN  Update(j, [job[j] EXCEPT !.imgs = imgs,
                                    !.pc = IF Len(imgs) = 0 THEN "fallback"
                                           ELSE "deduplicating"])
    /\ UNCHANGED <<cache, scrapeLog, env, wk, dd, hv, cn, tl, an>>

\* imgs = gptUrls.map((u) => ({ url: u, landingPage: url }))
FallbackImages(gptUrls, url) ==
    [k \in 1..Len(gptUrls) |-> RawImage(gptUrls[k], url, Undefined)]

\* STEP 4b
Fallback(j) ==
    /\ job[j].pc = "fallback"
    /\ \/ \E reply \in env.fallbackReplies :
             LET gptUrls == gptExtractImages(reply)
                 r == [job[j] EXCEPT !.fallbacks = @ + 1, !.fallbackReply = reply]
             IN  IF gptUrls.isArray
                 THEN Update(j, [r EXCEPT !.pc = "deduplicating",
                                          !.imgs = FallbackImages(gptUrls.items, job[j].url)])
                 ELSE Update(j, [r EXCEPT !.pc = "failed",
                                          !.err = "gptUrls.map is not a function"])
       \/ /\ "openai" \in env.faults
          /\ Update(j, [job[j] EXCEPT !.pc = "failed", !.fallbacks = @ + 1,
                                      !.err = "OpenAI error"])
    /\ UNCHANGED <<cache, scrapeLog, env, wk, dd, hv, cn, tl, an>>

\* STEP 4c
Dedupe(j) ==
    /\ job[j].pc = "deduplicating"
    /\ Update(j, [job[j] EXCEPT !.pc = "uploading",
                                !.uniqueImgs = dedupeImages(job[j].imgs, DedupeDefaultLimit)])
    /\ UNCHANGED <<cache, scrapeLog, env, wk, dd, hv, cn, tl, an>>

(* STEP 4d to the merge on their own, for any list dedupeImages may        *)
(* return: the upload, the dimension filter, the cap, the descriptions.    *)

\* a picture that passes the dimension filter, one too small on both sides
\* and one whose probe throws; up to MaxTail of them
TailImages ==
    LET unique(u) == [url |-> u, landingPage |-> UrlA, alt |-> Undefined,
                      context |-> Undefined, hash |-> getHash(u),
                      hasContentLength |-> ImageGet(u).hasLength]
    IN  UNION {[1..n -> {unique(ImgA), unique(ImgD), unique(ImgRaw)}] : n \in 0..MaxTail}

IdleTail ==
    [st |-> "idle", uniqueImgs |-> <<>>, s3Imgs |-> <<>>, limitedImgs |-> <<>>,
     images |-> <<>>]

TlUpload ==
    /\ tl.st = "idle"
    /\ \E uniqueImgs \in TailImages, ok \in BOOLEAN :
          tl' = [IdleTail EXCEPT
                    !.st = "uploaded", !.uniqueImgs = uniqueImgs,
                    !.s3Imgs = uploadAllImagesToS3(uniqueImgs,
                                                   [k \in 1..Len(uniqueImgs) |-> ok])]
    /\ UNCHANGED <<job, cache, scrapeLog, env, wk, dd, hv, cn, an>>

TlProbe ==
    /\ tl.st = "uploaded"
    /\ tl' = [tl EXCEPT !.st = "probed", !.limitedImgs = LimitedImgs(tl.s3Imgs)]
    /\ UNCHANGED <<job, cache, scrapeLog, env, wk, dd, hv, cn, an>>

TlMerge ==
    /\ tl.st = "probed"
    /\ LET eligible == Eligible(tl.limitedImgs)
           analysed == IF Len(eligible) > 0 THEN Echo(Slice(eligible, SendCap)) ELSE <<>>
       IN  tl' = [tl EXCEPT !.st = "returned",
                            !.images = ImagesFinal(tl.limitedImgs, analysed)]
    /\ UNCHANGED <<job, cache, scrapeLog, env, wk, dd, hv, cn, an>>

(* analyseImages on its own, lib/openai.ts, and the merge of what it       *)
(* returns.  The items go to the model in batches of 5; each reply is      *)
(* parsed on its own.                                                      *)

BatchSize == 5

\* n uploaded images, every other one harvested with an alt
AnalyseItems(n) ==
    [k \in 1..n |->
        [url |-> <<"https:", "//bucket.s3.amazonaws.com/all/",
                   <<"a", "b", "c", "d", "e", "f", "g", "h", "i">>[k], ".png">>,
         landingPage |-> UrlA,
         alt |-> IF k % 2 = 1 THEN "Harvested" ELSE Undefined,
         context |-> Undefined,
         hash |-> k]]

\* mutant: JSON.parse outside its try
AnalyseBatchUncaught(catch, batch, reply) ==
    [threw |-> reply = "text",
     results |-> IF reply = "results" THEN Echo(batch) ELSE <<>>]

\* one pass of the batch loop after the model's reply: what is pushed to
\* out.  reply "results": an array with a result for each item; "none":
\* an empty array; "text": something JSON.parse rejects, for which the
\* catch pushes a stand-in result for each item of the batch
\* (lib/openai.ts) or logs and pushes nothing (the edition with a
\* single user prompt)
AnalyseBatch(catch, batch, reply) ==
    [threw |-> FALSE,
     results |->
        CASE reply = "results" -> Echo(batch)
          [] reply = "none" -> <<>>
          [] OTHER ->
                IF catch = "stubs"
                THEN [k \in 1..Len(batch) |->
                         AiResult(batch[k].url,
                                  IF batch[k].alt = Undefined THEN "" ELSE batch[k].alt)]
                ELSE <<>>]

IdleAnalyse ==
    [st |-> "idle", catch |-> "stubs", items |-> <<>>, i |-> 0, replies |-> <<>>,
     out |-> <<>>, images |-> <<>>]

AnCall ==
    /\ an.st = "idle"
    /\ \E n \in 0..MaxItems, catch \in {"stubs", "nothing"} :
          an' = [IdleAnalyse EXCEPT !.st = "called", !.catch = catch,
                                    !.items = AnalyseItems(n)]
    /\ UNCHANGED <<job, cache, scrapeLog, env, wk, dd, hv, cn, tl>>

\* for (const batch of batches): items.slice(i, i + 5), the call, the parse
AnBatch ==
    /\ an.st = "called"
    /\ an.i < Len(an.items)
    /\ \E reply \in {"results", "none", "text"} :
          LET batch == SubSeq(an.items, an.i + 1,
                              IF an.i + BatchSize < Len(an.items)
                              THEN an.i + BatchSize ELSE Len(an.items))
              pass == AnalyseBatch(an.catch, batch, reply)
          IN  IF pass.threw
              THEN an' = [an EXCEPT !.st = "threw"]
              ELSE an' = [an EXCEPT !.i = @ + BatchSize,
                                    !.replies = Append(@, reply),
                                    !.out = @ \o pass.results]
    /\ UNCHANGED <<job, cache, scrapeLog, env, wk, dd, hv, cn, tl>>

\* return out, and the handler's merge of it
AnReturn ==
    /\ an.st = "called"
    /\ an.i >= Len(an.items)
    /\ an' = [an EXCEPT !.st = "returned", !.images = ImagesFinal(an.items, an.out)]
    /\ UNCHANGED <<job, cache, scrapeLog, env, wk, dd, hv, cn, tl>>

\* STEP 4d
Upload(j) ==
    /\ job[j].pc = "uploading"
    /\ \E putOk \in [1..Len(job[j].uniqueImgs) -> env.puts] :
          Update(j, [job[j] EXCEPT !.pc = "probing",
                                   !.s3Imgs = uploadAllImagesToS3(job[j].uniqueImgs, putOk)])
    /\ UNCHANGED <<cache, scrapeLog, env, wk, dd, hv, cn, tl, an>>

\* STEP 4e and the hard cap
Probe(j) ==
    /\ job[j].pc = "probing"
    /\ Update(j, [job[j] EXCEPT !.pc = "enriching",
                                !.limitedImgs = LimitedImgs(job[j].s3Imgs)])
    /\ UNCHANGED <<cache, scrapeLog, env, wk, dd, hv, cn, tl, an>>

\* STEP 5, the merge and the result; the started "completed" webhook
Merged(j, analysed) ==
    IF MergeThrows(analysed)
    THEN Update(j, [job[j] EXCEPT !.pc = "failed", !.analysed = analysed,
                                  !.merging = TRUE,
                                  !.err = "Cannot read properties of null"])
    ELSE LET r == [job[j] EXCEPT !.analysed = analysed, !.merging = TRUE,
                                 !.response = Response200(ImagesFinal(job[j].limitedImgs, analysed))]
         IN  IF job[j].webhookUrl # NoUrl
             THEN Update(j, [r EXCEPT !.pc = "notify_completed",
                                      !.frame = SendWebhookCall("completed", WebhookDefaultRetries)])
             ELSE Update(j, [r EXCEPT !.pc = "return200"])

Enrich(j) ==
    /\ job[j].pc = "enriching"
    /\ LET eligible == Eligible(job[j].limitedImgs)
       IN  IF Len(eligible) > 0
           THEN \/ \E analysed \in AnalyseReplies(Slice(eligible, SendCap)) :
                      /\ (env.name = "open" \/ analysed = Echo(Slice(eligible, SendCap)))
                      /\ Merged(j, analysed)
                \/ /\ "openai" \in env.faults
                   /\ Throw(j, "OpenAI error")
           ELSE Merged(j, <<>>)
    /\ UNCHANGED <<cache, scrapeLog, env, wk, dd, hv, cn, tl, an>>

\* err.response?.data || err.stack || 'No additional details': every error
\* thrown here is an Error with a stack; the error of a page fetch is an
\* axios error, which carries the reply of the service when there was one
ErrorDetails(err) ==
    IF err = "Firecrawl error" THEN {"err.response.data", "err.stack"}
    ELSE {"err.stack"}

\* the catch block up to its webhook
Catch(j) ==
    /\ job[j].pc = "failed"
    /\ LET e == CatchBlockError(job[j].body)
       IN  IF e # ""
           THEN Update(j, [job[j] EXCEPT !.pc = "done", !.response = Rejected(e)])
           ELSE \E details \in ErrorDetails(job[j].err) :
                LET r == [job[j] EXCEPT !.response = Response400(job[j].err, details)]
                IN  IF job[j].webhookUrl # NoUrl
                    THEN Update(j, [r EXCEPT !.pc = "notify_failed",
                                             !.frame = SendWebhookCall("failed", WebhookDefaultRetries)])
                    ELSE Update(j, [r EXCEPT !.pc = "return400"])
    /\ UNCHANGED <<cache, scrapeLog, env, wk, dd, hv, cn, tl, an>>

Return(j) ==
    /\ job[j].pc \in {"return200", "return400"}
    /\ Update(j, [job[j] EXCEPT !.pc = "done"])
    /\ UNCHANGED <<cache, scrapeLog, env, wk, dd, hv, cn, tl, an>>

----------------------------------------------------------------------------
(* Specifications. *)

\* one invocation; callers and collaborators may do anything
OpenEnv ==
    [name |-> "open", invocations |-> 1, overlap |-> FALSE,
     bodies |-> Bodies, faults |-> Collaborators,
     linkReplies |-> LinkReplies, fallbackReplies |-> FallbackReplies,
     puts |-> BOOLEAN, posts |-> BOOLEAN]

\* NJobs invocations one after the other, for valid requests; the page
\* fetch and the store may fail, the models answer plainly
SerialEnv ==
    [name |-> "serial", invocations |-> NJobs, overlap |-> FALSE,
     bodies |-> {Body("object", u, f, NoUrl) : u \in {UrlA, UrlB}, f \in BOOLEAN}
                \cup {Body("object", UrlA, FALSE, HookUrl)},
     faults |-> {"s3get", "s3put", "firecrawl"},
     linkReplies |-> {ModelReply("json", TRUE, <<>>),
                      ModelReply("json", TRUE, <<UrlA>>)},
     fallbackReplies |-> {ModelReply("json", TRUE, <<>>)},
     puts |-> {TRUE}, posts |-> BOOLEAN]

InitIn(e) ==
    /\ job = [j \in Jobs |-> InitJob]
    /\ cache = [k \in CacheKeys |-> NoEntry]
    /\ scrapeLog = <<>>
    /\ env = e
    /\ wk = IdleFrame
    /\ dd = IdleDedupe
    /\ hv = IdleHarvest
    /\ cn = IdleCanon
    /\ tl = IdleTail
    /\ an = IdleAnalyse

Init == InitIn(OpenEnv)

InitSerial == InitIn(SerialEnv)

Next ==
    \/ \E j \in Jobs :
          \/ Invoke(j)
          \/ Validate(j)
          \/ Notify(j)
          \/ CacheGet(j)
          \/ FetchHome(j)
          \/ CachePut(j)
          \/ FilterLinks(j)
          \/ FetchSubpage(j)
          \/ Harvest(j)
          \/ Fallback(j)
          \/ Dedupe(j)
          \/ Upload(j)
          \/ Probe(j)
          \/ Enrich(j)
          \/ Catch(j)
          \/ Return(j)
    \/ \E k \in CacheKeys : CacheExpire(k)

Spec == Init /\ [][Next]_vars

\* the runtime runs a handler whose awaited call has settled, and every
\* call to a collaborator settles: a step that can be taken is taken
SpecLive == Init /\ [][Next]_vars /\ WF_vars(Next)

NextWebhook == WkCall \/ WkAttempt

SpecWebhook == Init /\ [][NextWebhook]_vars

NextDedupe == DdCall \/ DdPass \/ DdReturn

SpecDedupe == Init /\ [][NextDedupe]_vars

\* consecutive jobs
SpecSerial == InitSerial /\ [][Next]_vars

\* NJobs invocations that may overlap (one Lambda instance each, one bucket
\* for all); no collaborator fails and every webhook is delivered
ConcurrentEnv ==
    [name |-> "concurrent", invocations |-> NJobs, overlap |-> TRUE,
     bodies |-> {Body("object", UrlA, FALSE, NoUrl), Body("object", UrlA, FALSE, HookUrl),
                 Body("object", NoUrl, FALSE, NoUrl)},
     faults |-> {},
     linkReplies |-> {ModelReply("json", TRUE, <<>>), ModelReply("json", TRUE, <<SubA>>)},
     fallbackReplies |-> {ModelReply("json", TRUE, <<>>)},
     puts |-> {TRUE}, posts |-> {TRUE}]

SpecConcurrent == InitIn(ConcurrentEnv) /\ [][Next]_vars

NextHarvest == HvCall \/ HvReturn

SpecHarvest == Init /\ [][NextHarvest]_vars

NextCanon == CnCall \/ CnCanon \/ CnAgain

SpecCanon == Init /\ [][NextCanon]_vars

NextAnalyse == AnCall \/ AnBatch \/ AnReturn

SpecAnalyse == Init /\ [][NextAnalyse]_vars

NextTail == TlUpload \/ TlProbe \/ TlMerge

SpecTail == Init /\ [][NextTail]_vars

----------------------------------------------------------------------------
(* Properties: the response and the webhooks.                              *)

HasEvent(r, name) == \E k \in 1..Len(r.events) : r.events[k].event = name

\* C1: every invocation ends with a returned response whose statusCode is
\* 200 or 400; the handler's promise is never rejected.  (Stated as in the
\* specification; the catch block parses event.body again, so it does not
\* hold for a body that is not JSON.)
C1_AlwaysStructuredResponse ==
    \A j \in Jobs :
        job[j].pc = "done" =>
            /\ job[j].response.kind = "returned"
            /\ job[j].response.statusCode \in {200, 400}

\* C2: a job that ends in failure, for a request that supplied webhook_url,
\* has sent a 'failed' event by the time the handler returns its 400.
\* (Stated as in the specification; 'url missing' is thrown before
\* webhook_url is remembered.)
C2_FailedWebhookOnEveryFailure ==
    \A j \in Jobs :
        (/\ job[j].pc = "done"
         /\ job[j].body.kind = "object"
         /\ job[j].body.webhook_url # NoUrl
         /\ job[j].response.status # "completed")
        => /\ job[j].response.statusCode = 400
           /\ HasEvent(job[j], "failed")

NotifyPcs == {"notify_started", "notify_completed", "notify_failed"}

\* the statement after the try/catch around each sendWebhook call
Continuation(pc) ==
    CASE pc = "notify_started"   -> "cache_get"
      [] pc = "notify_completed" -> "return200"
      [] pc = "notify_failed"    -> "return400"

\* everything of a job but its place and its webhook bookkeeping
Locals(r) == [r EXCEPT !.pc = "", !.frame = IdleFrame, !.events = <<>>]

\* C3: while a job awaits a sendWebhook call, every step leaves its locals
\* and its response as they are, and the call, returning or throwing, is
\* followed by the same statement: no webhook outcome fails the job or
\* changes what it returns.
C3_WebhookNeverFailsJob ==
    [][\A j \in Jobs :
          job[j].pc \in NotifyPcs =>
              /\ job'[j].pc \in {job[j].pc, Continuation(job[j].pc)}
              /\ Locals(job'[j]) = Locals(job[j])]_vars

\* a job whose 'started' and 'completed' calls both threw still returns 200
C3_Witness ==
    \E j \in Jobs :
        /\ job[j].pc = "done"
        /\ job[j].response.statusCode = 200
        /\ job[j].events = <<[event |-> "started", delivered |-> FALSE],
                             [event |-> "completed", delivered |-> FALSE]>>

\* C4: sendWebhook posts at most `retries` times, every post before the
\* last one failed, a successful post ends the call, and the call throws
\* only when `retries` posts were made and all of them failed.
C4_WebhookRetryBound ==
    /\ Len(wk.posts) <= wk.retries
    /\ \A k \in 1..Len(wk.posts) : wk.posts[k] => k = Len(wk.posts) /\ wk.st = "returned"
    /\ wk.st = "threw" =>
          /\ Len(wk.posts) = wk.retries
          /\ \A k \in 1..Len(wk.posts) : ~wk.posts[k]
    /\ wk.st = "running" => wk.i = Len(wk.posts) /\ wk.i < wk.retries

\* the default three attempts, all failed
C4_Witness ==
    /\ wk.st = "threw"
    /\ wk.retries = WebhookDefaultRetries
    /\ wk.posts = <<FALSE, FALSE, FALSE>>

----------------------------------------------------------------------------
(* Properties: the deduplicator.                                           *)

\* C5: dedupeImages returns at most `limit` images.  (Stated as in the
\* specification; the limit is tested after a push only.)
C5_NeverExceedsLimit ==
    dd.st = "returned" => Len(dd.out) <= dd.limit

\* the candidate was retrieved and passes the byte-size check
Retrieved(img) ==
    LET res == ImageGet(img.url)
    IN  res.ok /\ ~(res.hasLength /\ res.bytes < MinBytes)

Fingerprint(img) == getHash(SplitQuery(img.url))

Kept(n) == n <= Len(dd.verdicts) /\ dd.verdicts[n] = "kept"

\* C6 as the specification states it, for calls whose limit is out of
\* reach: of two retrieved candidates passing the size check, the later one
\* is dropped when their distance is at most 8, and both are kept when it
\* is more.
C6_PairwiseRule ==
    (dd.st = "returned" /\ dd.limit >= Len(dd.imgs)) =>
        \A m, n \in 1..Len(dd.imgs) :
            (m < n /\ Retrieved(dd.imgs[m]) /\ Retrieved(dd.imgs[n])) =>
                IF ham(Fingerprint(dd.imgs[m]), Fingerprint(dd.imgs[n])) <= HamThreshold
                THEN ~Kept(n)
                ELSE Kept(m) /\ Kept(n)

\* C6: a candidate the loop reaches, retrieved and passing the size check,
\* is dropped exactly when its fingerprint is within 8 of the fingerprint of
\* a candidate kept before it, and is kept otherwise; the others are never
\* kept; the images returned are the kept ones.
C6_DroppedIffNearKept ==
    /\ \A n \in 1..Len(dd.verdicts) :
          IF Retrieved(dd.imgs[n])
          THEN /\ dd.verdicts[n] \in {"dup", "kept"}
               /\ dd.verdicts[n] = "dup" <=>
                     \E m \in 1..(n - 1) :
                        /\ Kept(m)
                        /\ ham(Fingerprint(dd.imgs[m]), Fingerprint(dd.imgs[n]))
                              <= HamThreshold
          ELSE dd.verdicts[n] \in {"failed", "small"}
    /\ dd.st = "returned" =>
          Len(dd.out) = Cardinality({n \in 1..Len(dd.imgs) : Kept(n)})

\* three candidates: the second is dropped as a near-duplicate of the first,
\* the third is within 8 of the dropped second and is kept all the same
C6_Witness ==
    /\ dd.st = "returned"
    /\ dd.verdicts = <<"kept", "dup", "kept">>
    /\ ham(Fingerprint(dd.imgs[2]), Fingerprint(dd.imgs[3])) <= HamThreshold

----------------------------------------------------------------------------
(* Properties: the homepage cache.                                         *)

HomeFetched(j) ==
    \E k \in 1..Len(scrapeLog) : scrapeLog[k] = Scrape(j, job[j].body.url, "home")

\* C7 as the specification states it, for jobs that both end with a 200: of
\* two consecutive jobs for one URL, both without force_refresh, the second
\* finds the entry the first wrote, and the URL is not fetched twice.
C7_NeverFetchedTwice ==
    \A j \in Jobs \ {1} :
        (/\ job[j].pc = "done"
         /\ job[j].response.statusCode = 200
         /\ job[j - 1].response.statusCode = 200
         /\ job[j].body.url = job[j - 1].body.url
         /\ ~job[j].body.force_refresh
         /\ ~job[j - 1].body.force_refresh)
        => /\ Cardinality({k \in 1..Len(scrapeLog) :
                              scrapeLog[k].url = job[j].body.url}) <= 1
           /\ job[j].gated = "hit"

\* C7: of two consecutive jobs for one URL, both without force_refresh, when
\* the entry the first job wrote is in the cache, the second job does not
\* fetch the homepage, and the homepage it reads is the one the first wrote.
C7_CacheIdempotent ==
    \A j \in Jobs \ {1} :
        LET e == cache[CacheKey(job[j].body.url)]
        IN  (/\ job[j].pc # "idle"
             /\ job[j].body.url = job[j - 1].body.url
             /\ ~job[j].body.force_refresh
             /\ ~job[j - 1].body.force_refresh
             /\ e.present
             /\ e.by = j - 1)
            => /\ ~HomeFetched(j)
               /\ e.payload = job[j - 1].homepage
               /\ job[j].gated # "none" =>
                     job[j].gated = "hit" /\ job[j].homepage = e.payload

\* the second job answered 200 from the entry the first job wrote
C7_Witness ==
    /\ job[2].pc = "done"
    /\ job[2].response.statusCode = 200
    /\ job[2].body.url = job[1].body.url
    /\ ~job[1].body.force_refresh
    /\ ~job[2].body.force_refresh
    /\ job[2].gated = "hit"
    /\ cache[CacheKey(job[2].body.url)].by = 1
    /\ Len(scrapeLog) = 1

\* the stages of a job after the cache gate
AfterGate ==
    {"filtering_links", "fetching_subpages", "fallback", "deduplicating",
     "uploading", "probing", "enriching", "notify_completed", "return200"}

\* C8: after the lookup, a job with no entry or with force_refresh fetches
\* the homepage and then stores the payload it fetched under the key it
\* looked up, with an expiry of 24 hours; a job that found an entry and has
\* no force_refresh neither fetches the homepage nor writes to the cache.
C8_CacheGate ==
    \A j \in Jobs :
        job[j].gated # "none" =>
            LET r == job[j]
                key == CacheKey(r.url)
                must == r.gated = "miss" \/ r.force
            IN  /\ must => HomeFetched(j) \/ r.pc \in {"fetch_home", "failed", "notify_failed", "return400", "done"}
                /\ must /\ r.pc = "fetch_home" => ~HomeFetched(j)
                /\ must /\ r.pc \in AfterGate =>
                      /\ HomeFetched(j)
                      /\ cache[key].present
                      /\ cache[key].by = j
                /\ ~must => /\ ~HomeFetched(j)
                            /\ \A k \in CacheKeys : cache[k].by # j
                /\ \A k \in CacheKeys :
                      cache[k].by = j =>
                          /\ k = key
                          /\ HomeFetched(j)
                          /\ cache[k].present
                          /\ cache[k].payload = r.homepage
                          /\ cache[k].ttl = 24 * 60 * 60

\* a forced refresh over an existing entry stored another payload
C8_Witness ==
    /\ job[2].gated = "hit"
    /\ job[2].force
    /\ job[2].pc = "done"
    /\ cache[CacheKey(job[2].url)].by = 2
    /\ cache[CacheKey(job[2].url)].payload # job[1].homepage
    /\ job[1].body.url = job[2].body.url

----------------------------------------------------------------------------
(* Properties: the merge.                                                  *)

\* C9 as the specification states it: url, landing_page and hash of every
\* image of the response are those of an image dedupeImages produced.
C9_FieldsFromDedupe ==
    \A j \in Jobs :
        job[j].response.statusCode = 200 =>
            \A k \in 1..Len(job[j].response.images) :
                \E m \in 1..Len(job[j].uniqueImgs) :
                    /\ job[j].response.images[k].url = job[j].uniqueImgs[m].url
                    /\ job[j].response.images[k].landing_page = job[j].uniqueImgs[m].landingPage
                    /\ job[j].response.images[k].hash = job[j].uniqueImgs[m].hash

\* C9: url, landing_page and hash of every image of the response are those
\* of the image at the same place in the list that enters the merge;
\* landing_page and hash are those dedupeImages produced, and url is the url
\* dedupeImages produced or the S3 URL the upload put in its place.
C9_FieldsFromMergeInput ==
    \A j \in Jobs :
        job[j].response.statusCode = 200 =>
            LET out == job[j].response.images
                raw == job[j].limitedImgs
            IN  /\ Len(out) = Len(raw)
                /\ \A k \in 1..Len(out) :
                      /\ out[k].url = raw[k].url
                      /\ out[k].landing_page = raw[k].landingPage
                      /\ out[k].hash = raw[k].hash
                      /\ \E m \in 1..Len(job[j].uniqueImgs) :
                            LET u == job[j].uniqueImgs[m]
                            IN  /\ out[k].landing_page = u.landingPage
                                /\ out[k].hash = u.hash
                                /\ out[k].url \in {u.url, S3Url(u)}

\* an image of the response with an enriched alt and an S3 URL in place of
\* the URL dedupeImages produced, beside one that kept its URL
C9_Witness ==
    \E j \in Jobs :
        /\ job[j].pc = "done"
        /\ job[j].response.statusCode = 200
        /\ Len(job[j].response.images) = 2
        /\ job[j].response.images[1].url = S3Url(job[j].uniqueImgs[1])
        /\ job[j].response.images[1].alt = "AI alt"
        /\ job[j].response.images[2].url = job[j].uniqueImgs[2].url

\* C10: once the images have entered the enrichment and merge step, the
\* job answers 200 with one image per candidate, in the candidates' order,
\* whatever analyseImages returned.  (Stated as in the specification; a null
\* element in the array returned makes the merge throw.)
C10_OneEntryPerCandidate ==
    \A j \in Jobs :
        job[j].merging =>
            /\ job[j].response.statusCode = 200
            /\ Len(job[j].response.images) = Len(job[j].limitedImgs)
            /\ \A k \in 1..Len(job[j].limitedImgs) :
                  job[j].response.images[k].url = job[j].limitedImgs[k].url

----------------------------------------------------------------------------
(* Properties: failures of the collaborators and of the input.             *)

SubFetched(j) ==
    \E k \in 1..Len(scrapeLog) : scrapeLog[k].job = j /\ scrapeLog[k].stage = "sub"

\* C11: a job that fetched a sub-page is never failed by a page fetch: the
\* sub-page whose fetch fails counts for no HTML.  (Stated as in the
\* specification; Promise.all rejects with the rejection of the fetch.)
C11_SubpageFailureTolerated ==
    \A j \in Jobs :
        (job[j].pc = "done" /\ SubFetched(j)) => job[j].err # "Firecrawl error"

\* C12: no job ends failed by the store: after a failed cache read or cache
\* write the job goes on and returns a completed response.  (Stated as in
\* the specification; neither getObject nor putObject is awaited inside a
\* try/catch of its own.)
C12_StorageFailureNotFatal ==
    \A j \in Jobs :
        job[j].pc = "done" =>
            ~(job[j].response.statusCode = 400 /\ job[j].response.error = "S3 error")

\* the candidates whose retrieval succeeds
WithoutFailed(imgs) == SelectSeq(imgs, LAMBDA img : ImageGet(img.url).ok)

\* C13: a candidate whose retrieval fails is skipped and nothing more: it
\* is not kept, the loop goes on after it (it stops before the last
\* candidate only on a push that reaches the limit), and the images
\* returned are those returned for the sequence without such candidates.
C13_FailedRetrievalSkipped ==
    /\ \A n \in 1..Len(dd.verdicts) :
          ~ImageGet(dd.imgs[n].url).ok => dd.verdicts[n] = "failed"
    /\ dd.st = "loop" => Len(dd.verdicts) = dd.idx - 1 \/ dd.idx = Len(dd.imgs) + 1
    /\ Len(dd.verdicts) < Len(dd.imgs) /\ dd.idx > Len(dd.imgs) =>
          /\ dd.verdicts[Len(dd.verdicts)] = "kept"
          /\ Len(dd.uniques) >= dd.limit
    /\ dd.st = "returned" =>
          dd.out = dedupeImages(WithoutFailed(dd.imgs), dd.limit)

\* a failed retrieval between two kept candidates
C13_Witness ==
    /\ dd.st = "returned"
    /\ dd.verdicts = <<"kept", "failed", "kept">>
    /\ Len(dd.out) = 2

\* the job is past STEP 4a and 4b
PastHarvest(r) ==
    \/ r.pc \in {"deduplicating", "uploading", "probing", "enriching",
                 "notify_completed", "return200"}
    \/ r.response.statusCode = 200

\* C14: gptExtractImages is invoked at most once per job, only when
\* parseImages found nothing in the homepage and the fetched sub-pages,
\* and always in that case.
C14_FallbackIffNothingHarvested ==
    \A j \in Jobs :
        LET r == job[j]
            harvested == Harvested(r.homepage, r.url, r.pages)
        IN  /\ r.fallbacks <= 1
            /\ r.fallbacks = 1 => harvested = <<>> /\ Len(r.pages) = Len(r.keptLinks)
            /\ r.pc = "fallback" => harvested = <<>> /\ r.fallbacks = 0
            /\ PastHarvest(r) => (r.fallbacks = 1 <=> harvested = <<>>)
            /\ PastHarvest(r) /\ r.fallbacks = 0 => r.imgs = harvested

\* a job completed with the images the fallback named
C14_Witness ==
    \E j \in Jobs :
        /\ job[j].pc = "done"
        /\ job[j].fallbacks = 1
        /\ job[j].response.statusCode = 200
        /\ Len(job[j].response.images) = 2

\* the reply is a JSON array
IsJsonArray(reply) == reply.kind = "json" /\ reply.isArray

\* C15: a job whose fallback reply is not a JSON array completes with a 200
\* and an empty image list.  (Stated as in the specification; a reply that
\* is JSON and not an array is returned as it is, and gptUrls.map throws.)
C15_UnparseableFallbackTolerated ==
    \A j \in Jobs :
        (/\ job[j].pc = "done"
         /\ job[j].fallbackReply.kind # "none"
         /\ ~IsJsonArray(job[j].fallbackReply))
        => /\ job[j].response.statusCode = 200
           /\ job[j].response.status = "completed"
           /\ job[j].response.images = <<>>

\* C16: after a link-filter reply that is not a JSON array the kept links
\* are empty, no sub-page is fetched, the job is not failed by it, and the
\* images of the job are those of the homepage.
C16_NonArrayLinksTolerated ==
    \A j \in Jobs :
        LET r == job[j]
        IN  (r.linkReply.kind # "none" /\ ~IsJsonArray(r.linkReply)) =>
                /\ r.keptLinks = <<>>
                /\ r.pages = <<>>
                /\ ~SubFetched(j)
                /\ r.pc # "filtering_links"
                /\ r.err \in {"", "OpenAI error", "gptUrls.map is not a function",
                              "Cannot read properties of null"}
                /\ PastHarvest(r) /\ r.fallbacks = 0 =>
                      r.imgs = parseImages(r.homepage.rawHtml, r.url)
                /\ \A k \in 1..Len(r.response.images) :
                      r.response.images[k].landing_page = r.url

\* a job completed with homepage images after a JSON reply that is no array
C16_Witness ==
    \E j \in Jobs :
        /\ job[j].pc = "done"
        /\ job[j].linkReply = ModelReply("json", FALSE, <<SubA>>)
        /\ job[j].response.statusCode = 200
        /\ Len(job[j].response.images) = 2
        /\ job[j].fallbacks = 0

\* the locals no validation failure touches
Untouched(r) ==
    [r EXCEPT !.pc = "", !.body = NoBody, !.err = "", !.response = NoResponse,
              !.webhookUrl = NoUrl, !.frame = IdleFrame, !.events = <<>>]
        = [InitJob EXCEPT !.pc = ""]

\* C17: a request whose JSON body has no url is answered 400 with status
\* "failed" and the error "url missing", and nothing is called for it: no
\* cache lookup, page fetch, model call, image fetch or webhook.
C17_UrlMissing ==
    \A j \in Jobs :
        LET r == job[j]
        IN  (r.pc # "idle" /\ r.body.kind = "object" /\ r.body.url = NoUrl) =>
                /\ r.pc \in {"validating", "failed", "return400", "done"}
                /\ Untouched(r)
                /\ r.events = <<>>
                /\ \A k \in 1..Len(scrapeLog) : scrapeLog[k].job # j
                /\ \A c \in CacheKeys : cache[c].by # j
                /\ r.pc \in {"return400", "done"} =>
                      /\ r.response.statusCode = 400
                      /\ r.response.status = "failed"
                      /\ r.response.error = "url missing"

\* such a request that also named a webhook
C17_Witness ==
    \E j \in Jobs :
        /\ job[j].pc = "done"
        /\ job[j].body = Body("object", NoUrl, FALSE, HookUrl)
        /\ job[j].response.error = "url missing"

\* new URL(url) throws, or the protocol is neither http: nor https:
InvalidUrl(u) == u # NoUrl /\ (~UrlParses(u) \/ UrlProtocol(u) \notin {"http:", "https:"})

\* C18: a request whose url does not parse or has another scheme goes from
\* validating to failed and is answered 400; no cache lookup, page fetch,
\* model call or image fetch is made for it, and the only webhook sent for
\* it is the 'failed' one.
C18_InvalidUrlRejected ==
    \A j \in Jobs :
        LET r == job[j]
        IN  (r.pc # "idle" /\ r.body.kind = "object" /\ InvalidUrl(r.body.url)) =>
                /\ r.pc \in {"validating", "failed", "notify_failed", "return400", "done"}
                /\ Untouched(r)
                /\ \A k \in 1..Len(r.events) : r.events[k].event = "failed"
                /\ \A k \in 1..Len(scrapeLog) : scrapeLog[k].job # j
                /\ \A c \in CacheKeys : cache[c].by # j
                /\ r.pc \in {"notify_failed", "return400", "done"} =>
                      /\ r.response.statusCode = 400
                      /\ r.response.error \in {"Invalid URL", "url must start with http/https"}

\* an ftp URL rejected, and its 'failed' webhook delivered
C18_Witness ==
    \E j \in Jobs :
        /\ job[j].pc = "done"
        /\ job[j].body.url = FtpUrl
        /\ job[j].response.statusCode = 400
        /\ job[j].events = <<[event |-> "failed", delivered |-> TRUE]>>

----------------------------------------------------------------------------
(* Properties: the end-to-end scenarios.                                   *)

\* C19: a job completed from the homepage with three <img>, two of them one
\* JPEG under two query strings and the third a PNG, returns two images.
\* (Stated as in the specification; the harvester rejects a URL that does
\* not end in an allowed extension, so neither JPEG is harvested.)
C19_ScenarioA ==
    \A j \in Jobs :
        (/\ job[j].response.statusCode = 200
         /\ job[j].homepage.rawHtml = HtmlTwins
         /\ job[j].pages = <<>>)
        => Len(job[j].response.images) = 2

\* the fallback replied with the JSON array of one URL
OneFallbackUrl(r) ==
    /\ r.fallbacks = 1
    /\ IsJsonArray(r.fallbackReply)
    /\ Len(r.fallbackReply.items) = 1

----------------------------------------------------------------------------
(* Properties: the harvester and the canonical form.                       *)

\* C21: parseImages returns no URL twice: a reference that occurs several
\* times in one document yields one candidate.  (Stated as in the
\* specification; pushUnique keeps no set of the URLs it has pushed.)
C21_EachUrlOnce ==
    hv.st = "returned" =>
        \A i, k \in 1..Len(hv.out) : i < k => hv.out[i].url # hv.out[k].url

\* the references of a document that parse as URLs
ValidRefs(html) == SelectSeq(html, LAMBDA el : el.ref = NoUrl \/ UrlParses(el.ref))

\* C22: every candidate of parseImages has an absolute URL, and the
\* candidates are those of the document without its relative and malformed
\* references.  (Stated as in the specification; pushUnique pushes the
\* attribute value as it stands.)
C22_CandidatesAbsolute ==
    hv.st = "returned" =>
        /\ \A k \in 1..Len(hv.out) : UrlParses(hv.out[k].url)
        /\ Len(hv.out) = Len(parseImages(ValidRefs(hv.html), hv.landingPage))

\* C23: no candidate of parseImages has a URL with one of the words icon,
\* logo, favicon, sprite, avatar, testimonial in it, in any case, whether
\* it came from an <img>, a <source srcset> or a background-image.
C23_NoNonProductCandidate ==
    hv.st = "returned" =>
        \A k \in 1..Len(hv.out) :
            \A n \in 1..Len(hv.out[k].url) :
                LowerCase(hv.out[k].url[n]) \notin
                    {"icon", "logo", "favicon", "sprite", "avatar", "testimonial"}

\* a document with such a URL in each of the three places and a plain one
C23_Witness ==
    /\ hv.st = "returned"
    /\ hv.html = <<SourceTag(ImgFavicon), BgStyle(ImgLogo), ImgTag(ImgLogo, Undefined)>>
    /\ hv.out = <<>>

\* canon(canon(u)) = canon(u), for both URLs of the call
C24_Idempotent == cn.st = "twice" => cn.ccu = cn.cu /\ cn.ccv = cn.cv

\* C24: canon is idempotent, and two URLs that differ in their query
\* strings only have one canonical form.  (Stated as in the specification;
\* split('?')[0] cuts the fragment off with the query, and leaves it when
\* there is no query.)
C24_CanonIdempotentQueryBlind ==
    cn.st = "twice" =>
        /\ cn.ccu = cn.cu /\ cn.ccv = cn.cv
        /\ (cn.u.base = cn.v.base /\ cn.u.fragment = cn.v.fragment) => cn.cu = cn.cv

----------------------------------------------------------------------------
(* Properties: sizes and dimensions.                                       *)

\* C25: dedupeImages skips a retrieved candidate whose reply reports fewer
\* than 20 * 1024 bytes, skips none for its size when the reply reports no
\* size, and every image returned has hasContentLength = TRUE exactly when
\* the reply reported one.
C25_SizeRule ==
    /\ \A n \in 1..Len(dd.verdicts) :
          LET res == ImageGet(dd.imgs[n].url)
          IN  /\ (res.ok /\ res.hasLength /\ res.bytes < 20 * 1024)
                    => dd.verdicts[n] = "small"
              /\ dd.verdicts[n] = "small"
                    => (res.ok /\ res.hasLength /\ res.bytes < 20 * 1024)
    /\ dd.st = "returned" =>
          \A k \in 1..Len(dd.out) :
              dd.out[k].hasContentLength = ImageGet(dd.out[k].url).hasLength

\* 20479 bytes skipped, 51200 bytes kept, no size reported kept
C25_Witness ==
    /\ dd.st = "returned"
    /\ dd.imgs = [k \in 1..3 |-> RawImage(<<ImgTiny, ImgA, ImgB>>[k], UrlA, Undefined)]
    /\ dd.verdicts = <<"small", "kept", "kept">>
    /\ dd.out[1].hasContentLength /\ ~dd.out[2].hasContentLength

\* C26: the filter after deduplication drops no image that has a
\* trustworthy byte size, since it does not probe it.  (Stated as in the
\* specification; the handler calls filterS3ImagesByDimension, which probes
\* every image, and not filterImages.)
C26_SizedNeverProbed ==
    \A j \in Jobs :
        job[j].pc = "enriching" =>
            \A k \in 1..Len(job[j].s3Imgs) :
                job[j].s3Imgs[k].hasContentLength =>
                    \E m \in 1..Len(job[j].limitedImgs) :
                        job[j].limitedImgs[m] = job[j].s3Imgs[k]

----------------------------------------------------------------------------
(* Properties: the order of the stages and the terminal status.            *)

\* the stage of the pipeline a job is in
Stage(pc) ==
    CASE pc = "idle" -> 0
      [] pc \in {"validating", "notify_started"} -> 1
      [] pc \in {"cache_get", "fetch_home", "cache_put"} -> 2
      [] pc = "filtering_links" -> 3
      [] pc = "fetching_subpages" -> 4
      [] pc = "fallback" -> 5
      [] pc \in {"deduplicating", "uploading", "probing"} -> 6
      [] pc = "enriching" -> 7
      [] pc \in {"notify_completed", "return200"} -> 8
      [] pc \in {"failed", "notify_failed", "return400"} -> 9
      [] OTHER -> 10

\* C27: a job goes through validating, fetching_home, filtering_links,
\* fetching_subpages, harvesting, deduplicating, enriching, completed in
\* this order, one stage at a time (harvesting is over within the step
\* that leaves fetching_subpages when it finds an image), or from a stage
\* before completed to failed; and it leaves fetching_subpages for the
\* harvest only when every kept link has its page, which are all harvested.
C27_StagesInOrder ==
    [][\A j \in Jobs :
          LET a == Stage(job[j].pc)
              b == Stage(job'[j].pc)
          IN  /\ \/ b = a
                 \/ a <= 7 /\ b = a + 1
                 \/ a = 4 /\ b = 6
                 \/ a \in 1..7 /\ b = 9
                 \/ a \in {8, 9} /\ b = 10
              /\ (a = 4 /\ b \in {5, 6}) =>
                    /\ Len(job[j].pages) = Len(job[j].keptLinks)
                    /\ \A k \in 1..Len(job[j].keptLinks) :
                          job[j].pages[k].link = job[j].keptLinks[k]
                    /\ job'[j].imgs =
                          Harvested(job[j].homepage, job[j].url, job[j].pages)]_vars

\* a completed job whose images come from the sub-page it fetched
C27_Witness ==
    \E j \in Jobs :
        /\ job[j].pc = "done"
        /\ job[j].response.statusCode = 200
        /\ Len(job[j].keptLinks) = 1 /\ Len(job[j].pages) = 1
        /\ \E k \in 1..Len(job[j].imgs) : job[j].imgs[k].landingPage = SubA

\* C28: the details of a failed response, which is also the body of the
\* 'failed' webhook, are never a stack trace.  (Stated as in the
\* specification; details is err.response?.data || err.stack.)
C28_NoStackTrace ==
    \A j \in Jobs :
        job[j].response.statusCode = 400 => job[j].response.details # "err.stack"

\* the settled sendWebhook calls of a job that carried a terminal status
TerminalEvents(r) ==
    {k \in 1..Len(r.events) : r.events[k].event \in {"completed", "failed"}}

----------------------------------------------------------------------------
(* Properties: two jobs at once.                                           *)

\* two jobs for one URL that both found no entry
Racing(i, j) ==
    /\ i # j
    /\ job[i].url # NoUrl /\ job[i].url = job[j].url
    /\ job[i].gated = "miss" /\ job[j].gated = "miss"

\* C30: of two jobs for one URL that both miss the cache, each fetches the
\* homepage itself, goes on with the payload it fetched and completes with
\* the images harvested from it; once both have written, the entry of the
\* URL is the whole payload that the job for this URL which wrote last had
\* fetched, with the expiry of 24 hours.
C30_RaceOnlyRefetches ==
    \A i, j \in Jobs :
        Racing(i, j) =>
            /\ job[i].pc \in AfterGate \cup {"cache_put", "done"} =>
                  /\ HomeFetched(i)
                  /\ job[i].homepage \in HomeReplies
            /\ PastHarvest(job[i]) /\ job[i].fallbacks = 0 =>
                  job[i].imgs = Harvested(job[i].homepage, job[i].url, job[i].pages)
            /\ job[i].pc = "done" => job[i].response.statusCode = 200
            /\ (/\ job[i].pc \in AfterGate \cup {"done"}
                /\ job[j].pc \in AfterGate \cup {"done"}
                /\ ~(job[i].pc = "done" /\ job[j].pc = "done")) =>
                  LET e == cache[CacheKey(job[i].url)]
                  IN  /\ e.present
                      /\ e.by \in Jobs
                      /\ job[e.by].url = job[i].url
                      /\ job[e.by].gated = "miss"
                      /\ e.payload = job[e.by].homepage
                      /\ e.payload \in HomeReplies
                      /\ e.ttl = 24 * 60 * 60

\* both jobs are past their put, with different payloads, and the entry is
\* the one of the job that wrote last
C30_Witness ==
    /\ Racing(1, 2)
    /\ job[1].pc = "filtering_links" /\ job[2].pc = "filtering_links"
    /\ job[1].homepage # job[2].homepage
    /\ cache[CacheKey(job[1].url)].by = 1

----------------------------------------------------------------------------
(* Properties: the links kept and the images kept.                         *)

\* the sub-page fetches of job j, in the order they were made
SubScrapes(j) == SelectSeq(scrapeLog, LAMBDA e : e.job = j /\ e.stage = "sub")

\* C31: a job fetches at most one sub-page: the sub-pages it fetches are
\* the first entries of the array the link filter replied, in the order of
\* the reply, and at most 1 of them; no other link is fetched.
C31_AtMostTopK ==
    \A j \in Jobs :
        LET subs == SubScrapes(j)
            reply == job[j].linkReply
        IN  /\ Len(subs) <= 1
            /\ \A k \in 1..Len(subs) :
                  /\ reply.kind = "json" /\ reply.isArray
                  /\ k <= Len(reply.items)
                  /\ subs[k].url = reply.items[k]

\* a reply of two links, of which the first alone was fetched
C31_Witness ==
    \E j \in Jobs :
        /\ job[j].pc = "done"
        /\ job[j].response.statusCode = 200
        /\ job[j].linkReply = ModelReply("json", TRUE, <<SubA, UrlA>>)
        /\ Len(SubScrapes(j)) = 1
        /\ SubScrapes(j)[1].url = SubA

\* C32: a fingerprint is compared with the fingerprints kept so far and
\* with no other: a retrieved candidate farther than 8 from every kept one
\* is kept, whatever dropped candidates lie within 8 of it, and a candidate
\* is dropped as a near-duplicate only for a kept one within 8 before it.
C32_ComparedWithKeptOnly ==
    \A n \in 1..Len(dd.verdicts) :
        LET far == \A m \in 1..(n - 1) :
                       dd.verdicts[m] = "kept" =>
                           ham(getHash(SplitQuery(dd.imgs[m].url)),
                               getHash(SplitQuery(dd.imgs[n].url))) > 8
            res == ImageGet(dd.imgs[n].url)
        IN  /\ (res.ok /\ ~(res.hasLength /\ res.bytes < 20 * 1024) /\ far)
                  => dd.verdicts[n] = "kept"
            /\ dd.verdicts[n] = "dup" => ~far

\* a.jpg kept, c.webp dropped for it, b.png kept: b.png is within 8 of the
\* dropped c.webp and farther than 8 from a.jpg
C32_Witness ==
    /\ dd.st = "returned"
    /\ dd.imgs = [k \in 1..3 |-> RawImage(<<ImgA, ImgC, ImgB>>[k], UrlA, Undefined)]
    /\ ham(getHash(ImgC), getHash(ImgB)) <= 8
    /\ ham(getHash(ImgA), getHash(ImgB)) > 8
    /\ dd.verdicts = <<"kept", "dup", "kept">>
    /\ Len(dd.out) = 2

\* the fields dedupeImages copies from a candidate
SameCandidate(out, img) ==
    /\ out.url = img.url
    /\ out.landingPage = img.landingPage
    /\ out.alt = img.alt
    /\ out.context = img.context

RECURSIVE Embeds(_, _, _, _)
\* out from k on is a subsequence of imgs from n on
Embeds(out, imgs, k, n) ==
    IF k > Len(out) THEN TRUE
    ELSE IF n > Len(imgs) THEN FALSE
    ELSE IF SameCandidate(out[k], imgs[n]) THEN Embeds(out, imgs, k + 1, n + 1)
    ELSE Embeds(out, imgs, k, n + 1)

\* C33: the images dedupeImages returned to a job are a subsequence of the
\* candidates, each with the url, landingPage, alt and context of its
\* candidate, and every retrieved candidate passing the size check is
\* either returned or within 8 of a returned candidate that came before it.
C33_SubsequenceFirstWins ==
    \A j \in Jobs :
        LET r == job[j]
        IN  (PastHarvest(r) /\ r.pc # "deduplicating") =>
                /\ Embeds(r.uniqueImgs, r.imgs, 1, 1)
                /\ \A n \in 1..Len(r.imgs) :
                      Retrieved(r.imgs[n]) =>
                          \E m \in 1..n, o \in 1..Len(r.uniqueImgs) :
                              /\ SameCandidate(r.uniqueImgs[o], r.imgs[m])
                              /\ r.uniqueImgs[o].hash = Fingerprint(r.imgs[m])
                              /\ ham(Fingerprint(r.imgs[m]), Fingerprint(r.imgs[n])) <= 8

\* four candidates from two pages, two of them returned: the picture found
\* on both pages is returned with the page it was first found on
C33_Witness ==
    \E j \in Jobs :
        /\ job[j].pc = "done"
        /\ job[j].response.statusCode = 200
        /\ Len(job[j].imgs) = 4
        /\ job[j].imgs[1].url = job[j].imgs[3].url
        /\ job[j].imgs[1].landingPage # job[j].imgs[3].landingPage
        /\ Len(job[j].uniqueImgs) = 2
        /\ job[j].uniqueImgs[1].landingPage = job[j].imgs[1].landingPage

\* C38: any two images kept so far have fingerprints more than 8 bits
\* apart, at every step of the loop, and so have any two images returned.
C38_KeptPairwiseFar ==
    /\ \A i, k \in 1..Len(dd.uniques) :
          i < k => ham(dd.uniques[i].hash, dd.uniques[k].hash) > 8
    /\ \A i, k \in 1..Len(dd.out) :
          i < k => ham(dd.out[i].hash, dd.out[k].hash) > 8

\* b.png and d.jpeg are exactly 8 bits apart: the second one is dropped
C38_Witness ==
    /\ dd.st = "returned"
    /\ dd.imgs = [k \in 1..3 |-> RawImage(<<ImgA, ImgB, ImgD>>[k], UrlA, Undefined)]
    /\ ham(getHash(ImgB), getHash(ImgD)) = 8
    /\ dd.verdicts = <<"kept", "kept", "dup">>
    /\ Len(dd.out) = 2

----------------------------------------------------------------------------
(* Properties: the 'started' event.                                        *)

\* C40: a job sends a 'completed' or 'failed' event only after a 'started'
\* event, and a job with a webhook_url looks up or fetches the homepage
\* only after its 'started' event.  (Stated as in the specification; the
\* 'started' event is sent after validation, the 'failed' one also for a
\* request that fails validation once webhookUrl is assigned.)
C40_StartedFirst ==
    \A j \in Jobs :
        /\ (HasEvent(job[j], "completed") \/ HasEvent(job[j], "failed"))
              => job[j].events[1].event = "started"
        /\ (job[j].webhookUrl # NoUrl /\ (job[j].gated # "none" \/ HomeFetched(j)))
              => HasEvent(job[j], "started")

----------------------------------------------------------------------------
(* Properties: the merge of the descriptions.                              *)

\* the results filed under the key of a URL: those with a url that is the
\* same up to the query string
FiledUnder(analysed, url) ==
    {m \in 1..Len(analysed) :
        analysed[m].url # NoUrl /\ SplitQuery(analysed[m].url) = SplitQuery(url)}

----------------------------------------------------------------------------
(* Properties: the dimension filters and the cap.                          *)

\* C36: an image whose probe fails gets the same decision from filterImages
\* and from filterS3ImagesByDimension: both keep it or both drop it.
\* (Stated as in the specification; filterImages keeps such an image in its
\* catch, filterS3ImagesByDimension drops it.)
C36_OneProbePolicy ==
    tl.st # "idle" =>
        \A k \in 1..Len(tl.s3Imgs) :
            (~tl.s3Imgs[k].hasContentLength /\ ~ProbeInfo(tl.s3Imgs[k].url).ok)
                => (FilterImagesKeeps(tl.s3Imgs[k]) <=> PassesDimension(tl.s3Imgs[k]))

\* C37: a completed response lists at most 5 images, however many images
\* dedupeImages returned and whatever the uploads and the probes did.
C37_AtMostFive ==
    /\ tl.st \in {"probed", "returned"} => Len(tl.limitedImgs) <= 5
    /\ tl.st = "returned" => Len(tl.images) <= 5

\* more than 5 images of the right size went in and 5 came out
C37_Witness ==
    /\ tl.st = "returned"
    /\ Cardinality({k \in 1..Len(tl.s3Imgs) : PassesDimension(tl.s3Imgs[k])}) > 5
    /\ Len(tl.images) = 5

----------------------------------------------------------------------------
(* Properties: the batches of analyseImages.                               *)

\* the reply to the batch that item k went in
ReplyFor(k) == an.replies[((k - 1) \div 5) + 1]

\* C34: a reply that does not parse does not make analyseImages throw: the
\* call returns after one reply for each batch of 5, the batches after the
\* unparseable one included; an image of a batch with an unparseable reply
\* is returned with the alt it was harvested with, or "", as it is for an
\* empty result, and an image of a batch with results gets its result.
C34_UnparseableBatchIsEmpty ==
    /\ an.st # "threw"
    /\ an.st = "returned" =>
          /\ Len(an.replies) = (Len(an.items) + 4) \div 5
          /\ Len(an.images) = Len(an.items)
          /\ \A k \in 1..Len(an.items) :
                /\ ReplyFor(k) \in {"text", "none"} =>
                      an.images[k].alt = IF an.items[k].alt # Undefined
                                         THEN an.items[k].alt ELSE ""
                /\ ReplyFor(k) = "results" => an.images[k].alt = "AI alt"

\* seven images, the reply to the first five unparseable: they keep their
\* harvested alt or get "", and the two of the second batch are described
C34_Witness ==
    /\ an.st = "returned"
    /\ Len(an.items) = 7
    /\ an.replies = <<"text", "results">>
    /\ an.images[1].alt = "Harvested"
    /\ an.images[2].alt = ""
    /\ an.images[6].alt = "AI alt"

----------------------------------------------------------------------------
(* Properties: termination.                                                *)

\* C39: every invocation ends: from some point on a job is for good
\* either not invoked or returned, whatever its collaborators answer; so a
\* job that was invoked returns, and is not run again after its return.
C39_EveryInvocationReturns ==
    \A j \in Jobs : <>[](job[j].pc \in {"idle", "done"})

\* a job that failed after its sub-page fetch and whose two webhook calls
\* used up their retries has returned its 400
C39_Witness ==
    \E j \in Jobs :
        /\ job[j].pc = "done"
        /\ job[j].response.statusCode = 400
        /\ Len(SubScrapes(j)) = 1
        /\ Len(job[j].events) = 2
        /\ \A k \in 1..2 : ~job[j].events[k].delivered

=============================================================================
